---- MODULE Spec2Model ----
(***************************************************************************)
(* A model of the VCD indexing and query engine of                         *)
(* src/src/vcd_parser.cpp and of the LOD filter of                         *)
(* src/src/lod_manager.cpp.                                                *)
(*                                                                         *)
(* Byte strings (the trace, chunks, lines, tokens, id-codes, values) are   *)
(* tuples of one-character strings, positions in them are 0-based as in    *)
(* the source.  The parser is the record impl (struct VcdParser::Impl);    *)
(* every member function is an operator from the record to the record.    *)
(***************************************************************************)
EXTENDS Integers, Sequences, FiniteSets, TLC

-----------------------------------------------------------------------------
(* std::string_view                                                        *)

NPOS == -1

SetMin(S) == CHOOSE x \in S : \A y \in S : x <= y
SetMax(S) == CHOOSE x \in S : \A y \in S : x >= y

\* sv.substr(pos, n) and sv.substr(pos); n = NPOS means "to the end"
substr(s, pos, n) ==
    IF n = NPOS \/ pos + n > Len(s) THEN SubSeq(s, pos + 1, Len(s))
    ELSE SubSeq(s, pos + 1, pos + n)

\* sv.find(c, pos)
find(s, c, pos) ==
    LET hits == {i \in pos .. Len(s) - 1 : s[i + 1] = c}
    IN IF hits = {} THEN NPOS ELSE SetMin(hits)

\* sv.find_last_of(c)
find_last_of(s, c) ==
    LET hits == {i \in 0 .. Len(s) - 1 : s[i + 1] = c}
    IN IF hits = {} THEN NPOS ELSE SetMax(hits)

\* the positions at which the string pat occurs in s
occurrences(s, pat) ==
    {i \in 0 .. Len(s) - Len(pat) : SubSeq(s, i + 1, i + Len(pat)) = pat}

\* sv.find(pat) and sv.rfind(pat)
find_str(s, pat) ==
    IF occurrences(s, pat) = {} THEN NPOS ELSE SetMin(occurrences(s, pat))
rfind_str(s, pat) ==
    IF occurrences(s, pat) = {} THEN NPOS ELSE SetMax(occurrences(s, pat))

\* line.rfind(pat, 0) == 0
starts_with(s, pat) ==
    Len(s) >= Len(pat) /\ SubSeq(s, 1, Len(pat)) = pat

\* the characters c with c <= ' ' that the traces of the model contain
WS == {" ", "\n", "\t", "\r"}

trim(sv) ==
    LET keep == {i \in 1 .. Len(sv) : sv[i] \notin WS}
    IN IF keep = {} THEN <<>> ELSE SubSeq(sv, SetMin(keep), SetMax(keep))

Digits == <<"0", "1", "2", "3", "4", "5", "6", "7", "8", "9">>
IsDigit(c) == \E i \in 1 .. 10 : Digits[i] = c
DigitVal(c) == (CHOOSE i \in 1 .. 10 : Digits[i] = c) - 1

\* the value of the digit string s[1..n]
RECURSIVE DecVal(_, _)
DecVal(s, n) == IF n = 0 THEN 0 ELSE 10 * DecVal(s, n - 1) + DigitVal(s[n])

\* std::stoull / std::stoi on the model's alphabet: leading white space is
\* skipped, the longest run of digits is converted, the rest is ignored;
\* without a digit the call throws std::invalid_argument (ok = FALSE).
stonum(s) ==
    LET nonws == {i \in 1 .. Len(s) : s[i] \notin WS}
        first == IF nonws = {} THEN Len(s) + 1 ELSE SetMin(nonws)
        stops == {i \in first .. Len(s) : ~IsDigit(s[i])}
        last  == IF stops = {} THEN Len(s) ELSE SetMin(stops) - 1
    IN IF last < first THEN [ok |-> FALSE, val |-> 0]
       ELSE [ok |-> TRUE, val |-> DecVal(SubSeq(s, first, last), last - first + 1)]

-----------------------------------------------------------------------------
(* Bit-packing for 1-bit states.  A uint64_t is the tuple of its 64 bits,  *)
(* least significant first.                                                *)

WordBits == 64

char_to_val2b(c) ==
    IF c = "0" THEN 0
    ELSE IF c = "1" THEN 1
    ELSE IF c = "x" \/ c = "X" THEN 2
    ELSE IF c = "z" \/ c = "Z" THEN 3
    ELSE 2

val2b_to_char(v) == <<"0", "1", "x", "z">>[(v % 4) + 1]

\* 0xAAAAAAAAAAAAAAAA
WordAllX == [i \in 1 .. WordBits |-> (i - 1) % 2]

\* static_cast<uint64_t>(val) << shift, val a uint8_t
ShiftedVal(val, shift) ==
    [i \in 1 .. WordBits |->
        IF i - 1 >= shift /\ i - 1 - shift < 8
        THEN (val \div (2 ^ (i - 1 - shift))) % 2 ELSE 0]

\* ~(3ULL << shift)
ClearMask(shift) ==
    [i \in 1 .. WordBits |-> IF i - 1 = shift \/ i - 1 = shift + 1 THEN 0 ELSE 1]

BitAnd(a, b) == [i \in 1 .. WordBits |-> a[i] * b[i]]
BitOr(a, b) == [i \in 1 .. WordBits |-> IF a[i] + b[i] > 0 THEN 1 ELSE 0]

\* a write that does not clear the two bits first
set_1bit_state_unmasked(vec, bit_index, val) ==
    LET word  == bit_index \div 32
        shift == (bit_index % 32) * 2
    IN [vec EXCEPT ![word + 1] = BitOr(@, ShiftedVal(val, shift))]

set_1bit_state(vec, bit_index, val) ==
    LET word  == bit_index \div 32
        shift == (bit_index % 32) * 2
    IN [vec EXCEPT ![word + 1] =
            BitOr(BitAnd(@, ClearMask(shift)), ShiftedVal(val, shift))]

get_1bit_state(vec, bit_index) ==
    LET word  == bit_index \div 32
        shift == (bit_index % 32) * 2
    IN vec[word + 1][shift + 1] + 2 * vec[word + 1][shift + 2]

-----------------------------------------------------------------------------
(* Keywords                                                                *)

kw_enddefinitions == <<"$", "e", "n", "d", "d", "e", "f", "i", "n", "i", "t", "i", "o", "n", "s">>
kw_dumpvars == <<"$", "d", "u", "m", "p", "v", "a", "r", "s">>
kw_dump == <<"$", "d", "u", "m", "p">>
kw_scope == <<"$", "s", "c", "o", "p", "e">>
kw_upscope == <<"$", "u", "p", "s", "c", "o", "p", "e">>
kw_var == <<"$", "v", "a", "r">>
kw_timescale == <<"$", "t", "i", "m", "e", "s", "c", "a", "l", "e">>
kw_end == <<"$", "e", "n", "d">>

\* (uint32_t)-1, the value of an unset bit_index / str_index
UINT32_MAX == -1

-----------------------------------------------------------------------------
(* struct VcdParser::Impl                                                  *)

\* the members of a LodManager before its first reset
LodDefaultFields ==
    [pixel_time_step_ |-> 0, last_emitted_time_ |-> <<>>,
     signal_is_glitch_ |-> <<>>, last_transition_time_ |-> <<>>,
     last_value_1bit_ |-> <<>>, last_value_multi_offset_ |-> <<>>,
     last_value_multi_length_ |-> <<>>, glitch_end_multi_offset_ |-> <<>>,
     glitch_end_multi_length_ |-> <<>>, glitch_string_offset_ |-> UINT32_MAX]

\* the members as their default member initialisers leave them
ImplDefault ==
    [phase |-> "Idle", parse_state |-> "Header",
     leftover |-> <<>>, leftover_file_offset |-> 0,
     date_str |-> <<>>, version_str |-> <<>>,
     ts |-> [magnitude |-> 1, unit |-> "NS"],
     signal_defs |-> <<>>, id_to_index |-> <<>>, path_to_index |-> <<>>,
     scopes |-> <<>>, current_scope |-> 0,
     t_begin |-> 0, t_end |-> 0, first_ts |-> TRUE, current_time |-> 0,
     num_1bit |-> 0, num_multibit |-> 0,
     current_state_1bit |-> <<>>, current_state_multibit |-> <<>>,
     snapshots |-> <<>>, last_snapshot_file_offset |-> 0,
     past_first_snapshot |-> FALSE, header_done |-> FALSE,
     query_t_begin |-> 0, query_t_end |-> 0, query_signal_indices |-> <<>>,
     query_initial_emitted |-> FALSE, query_done |-> FALSE,
     query_res_1bit |-> <<>>, query_res_multibit |-> <<>>,
     query_string_pool |-> <<>>, is_signal_queried |-> <<>>,
     \* the LOD members of the five-argument begin_query revision
     lod_manager |-> LodDefaultFields, last_index_1bit |-> <<>>,
     last_index_multi |-> <<>>, with_lod |-> FALSE,
     \* not members: an exception thrown out of the parser (std::stoull,
     \* std::stoi) and an access outside a vector (undefined behaviour)
     thrown |-> FALSE, ub |-> FALSE]

\* the scope tree: scopes[1] is the root, parent = 0 is nullptr, the children
\* of a node are the nodes that name it as parent, in order
RootScope == [name |-> <<"<", "r", "o", "o", "t", ">">>, full_path |-> <<>>,
              parent |-> 0, signal_indices |-> <<>>]

reset_state(I) ==
    [I EXCEPT !.phase = "Idle", !.parse_state = "Header",
              !.leftover = <<>>, !.leftover_file_offset = 0,
              !.date_str = <<>>, !.version_str = <<>>,
              !.signal_defs = <<>>, !.id_to_index = <<>>, !.path_to_index = <<>>,
              !.scopes = <<RootScope>>, !.current_scope = 1,
              !.t_begin = 0, !.t_end = 0, !.current_time = 0, !.first_ts = TRUE,
              !.num_1bit = 0, !.num_multibit = 0,
              !.current_state_1bit = <<>>, !.current_state_multibit = <<>>,
              !.snapshots = <<>>, !.last_snapshot_file_offset = 0,
              !.past_first_snapshot = FALSE, !.header_done = FALSE]

parse_time_unit(s) ==
    IF s = <<"s">> THEN "S"
    ELSE IF s = <<"m", "s">> THEN "MS"
    ELSE IF s = <<"u", "s">> THEN "US"
    ELSE IF s = <<"n", "s">> THEN "NS"
    ELSE IF s = <<"p", "s">> THEN "PS"
    ELSE IF s = <<"f", "s">> THEN "FS"
    ELSE "NS"

prepare_states(I) ==
    LET words == (I.num_1bit + 31) \div 32
    IN [I EXCEPT !.current_state_1bit = [w \in 1 .. words |-> WordAllX],
                 !.current_state_multibit = [m \in 1 .. I.num_multibit |-> <<"x">>],
                 !.is_signal_queried = [s \in 1 .. Len(I.signal_defs) |-> FALSE]]

-----------------------------------------------------------------------------
(* class LodManager (src/src/lod_manager.cpp).  A float is the integer     *)
(* number of its FloatScale-th parts; static_cast<uint64_t> of a positive  *)
(* float drops the fraction.  Subtraction of uint64_t wraps around.        *)

FloatScale == 2
to_float(n) == n * FloatScale
float_to_u64(f) == f \div FloatScale

\* std::numeric_limits<uint64_t>::max(), at the width of TLC's integers
UINT64_MAX == 2147483647

U64Sub(a, b) == IF a >= b THEN a - b ELSE (UINT64_MAX - (b - a)) + 1

GLITCH == 4
GlitchString == <<"G", "L", "I", "T", "C", "H">>

lod_reset(L, signal_count, pixel_time_step) ==
    [pixel_time_step_ |-> pixel_time_step,
     last_emitted_time_ |-> [s \in 1 .. signal_count |-> UINT64_MAX],
     signal_is_glitch_ |-> [s \in 1 .. signal_count |-> FALSE],
     last_transition_time_ |-> [s \in 1 .. signal_count |-> UINT64_MAX],
     last_value_1bit_ |-> [s \in 1 .. signal_count |-> 0],
     last_value_multi_offset_ |-> [s \in 1 .. signal_count |-> 0],
     last_value_multi_length_ |-> [s \in 1 .. signal_count |-> 0],
     glitch_end_multi_offset_ |-> [s \in 1 .. signal_count |-> 0],
     glitch_end_multi_length_ |-> [s \in 1 .. signal_count |-> 0],
     glitch_string_offset_ |-> UINT32_MAX]

\* the condition of the second branch of process_1bit / process_multibit
\* a glitch test without the test of the sign: a step that is not positive
\* counts as wider than every distance
sub_pixel_unguarded(L, current_time, s) ==
    /\ L.last_transition_time_[s] # UINT64_MAX
    /\ L.pixel_time_step_ > 0
        => U64Sub(current_time, L.last_transition_time_[s])
               < float_to_u64(L.pixel_time_step_)

sub_pixel(L, current_time, s) ==
    /\ L.pixel_time_step_ > 0
    /\ L.last_transition_time_[s] # UINT64_MAX
    /\ U64Sub(current_time, L.last_transition_time_[s])
           < float_to_u64(L.pixel_time_step_)

\* The operators below take and return the record
\* [lod, res, last_index, pool]: the LodManager and the vectors passed to it
\* by reference.

process_1bit(C, current_time, sig_idx, v, old_v) ==
    LET s == sig_idx + 1
        L == C.lod
        last_idx == C.last_index[s]
        ltt == L.last_transition_time_[s]
        closed ==
            IF L.signal_is_glitch_[s]
            THEN [C EXCEPT !.last_index[s] = Len(C.res),
                           !.res = Append(@, [timestamp |-> ltt, signal_index |-> sig_idx,
                                              value |-> old_v]),
                           !.lod.last_emitted_time_[s] = ltt,
                           !.lod.signal_is_glitch_[s] = FALSE]
            ELSE C
        appended ==
            IF v # old_v
            THEN [closed EXCEPT !.last_index[s] = Len(closed.res),
                                !.res = Append(@, [timestamp |-> current_time,
                                                   signal_index |-> sig_idx, value |-> v]),
                                !.lod.last_emitted_time_[s] = current_time]
            ELSE closed
        after ==
            IF current_time = L.last_emitted_time_[s]
            THEN IF last_idx >= 0 THEN [C EXCEPT !.res[last_idx + 1].value = v] ELSE C
            ELSE IF sub_pixel(L, current_time, s)
            THEN IF v # old_v /\ ~L.signal_is_glitch_[s]
                 THEN [(IF last_idx >= 0 THEN [C EXCEPT !.res[last_idx + 1].value = GLITCH]
                        ELSE C)
                       EXCEPT !.lod.signal_is_glitch_[s] = TRUE]
                 ELSE C
            ELSE IF v # old_v \/ L.signal_is_glitch_[s] THEN appended
            ELSE C
    IN [after EXCEPT !.lod.last_transition_time_[s] = current_time,
                     !.lod.last_value_1bit_[s] = v]

process_multibit(C, current_time, sig_idx, val_tok, old_v) ==
    LET s == sig_idx + 1
        L == C.lod
        last_idx == C.last_index[s]
        ltt == L.last_transition_time_[s]
        \* first branch: same timestamp
        same ==
            IF last_idx >= 0
            THEN [C EXCEPT !.pool = @ \o val_tok,
                           !.res[last_idx + 1].string_offset = Len(C.pool),
                           !.res[last_idx + 1].string_length = Len(val_tok),
                           !.lod.last_value_multi_offset_[s] = Len(C.pool),
                           !.lod.last_value_multi_length_[s] = Len(val_tok)]
            ELSE C
        \* second branch: glitch
        withstr ==
            IF L.glitch_string_offset_ = UINT32_MAX
            THEN [C EXCEPT !.lod.glitch_string_offset_ = Len(C.pool),
                           !.pool = @ \o GlitchString]
            ELSE C
        marked ==
            IF val_tok # old_v /\ ~L.signal_is_glitch_[s]
            THEN [withstr EXCEPT
                     !.last_index[s] = Len(withstr.res),
                     !.res = Append(@, [timestamp |-> ltt, signal_index |-> sig_idx,
                                        string_offset |-> withstr.lod.glitch_string_offset_,
                                        string_length |-> 6]),
                     !.lod.last_emitted_time_[s] = ltt,
                     !.lod.signal_is_glitch_[s] = TRUE]
            ELSE C
        glitch ==
            [marked EXCEPT !.pool = @ \o val_tok,
                           !.lod.glitch_end_multi_offset_[s] = Len(marked.pool),
                           !.lod.glitch_end_multi_length_[s] = Len(val_tok)]
        \* third branch: normal transition, glitch closure
        closed ==
            IF L.signal_is_glitch_[s]
            THEN [C EXCEPT
                     !.last_index[s] = Len(C.res),
                     !.res = Append(@, [timestamp |-> ltt, signal_index |-> sig_idx,
                                        string_offset |-> L.glitch_end_multi_offset_[s],
                                        string_length |-> L.glitch_end_multi_length_[s]]),
                     !.lod.last_emitted_time_[s] = ltt,
                     !.lod.signal_is_glitch_[s] = FALSE,
                     !.lod.last_value_multi_offset_[s] = L.glitch_end_multi_offset_[s],
                     !.lod.last_value_multi_length_[s] = L.glitch_end_multi_length_[s]]
            ELSE C
        appended ==
            IF val_tok # old_v
            THEN [closed EXCEPT
                     !.pool = @ \o val_tok,
                     !.last_index[s] = Len(closed.res),
                     !.res = Append(@, [timestamp |-> current_time, signal_index |-> sig_idx,
                                        string_offset |-> Len(closed.pool),
                                        string_length |-> Len(val_tok)]),
                     !.lod.last_value_multi_offset_[s] = Len(closed.pool),
                     !.lod.last_value_multi_length_[s] = Len(val_tok),
                     !.lod.last_emitted_time_[s] = current_time]
            ELSE closed
        after ==
            IF current_time = L.last_emitted_time_[s] THEN same
            ELSE IF sub_pixel(L, current_time, s) THEN glitch
            ELSE IF val_tok # old_v \/ L.signal_is_glitch_[s] THEN appended
            ELSE C
    IN [after EXCEPT !.lod.last_transition_time_[s] = current_time]

\* emit_initial_1bit without the index of the transition it pushes
emit_initial_1bit_unindexed(C, start_time, sig_idx, v) ==
    LET s == sig_idx + 1
    IN [C EXCEPT !.res = Append(@, [timestamp |-> start_time, signal_index |-> sig_idx,
                                    value |-> v]),
                 !.lod.last_emitted_time_[s] = start_time,
                 !.lod.last_transition_time_[s] = start_time,
                 !.lod.last_value_1bit_[s] = v,
                 !.lod.signal_is_glitch_[s] = FALSE]

emit_initial_1bit(C, start_time, sig_idx, v) ==
    LET s == sig_idx + 1
    IN [C EXCEPT !.last_index[s] = Len(C.res),
                 !.res = Append(@, [timestamp |-> start_time, signal_index |-> sig_idx,
                                    value |-> v]),
                 !.lod.last_emitted_time_[s] = start_time,
                 !.lod.last_transition_time_[s] = start_time,
                 !.lod.last_value_1bit_[s] = v,
                 !.lod.signal_is_glitch_[s] = FALSE]

\* emit_initial_multibit without the copy of the value into the string pool
emit_initial_multibit_unpooled(C, start_time, sig_idx, sv) ==
    LET s == sig_idx + 1
    IN [C EXCEPT !.last_index[s] = Len(C.res),
                 !.res = Append(@, [timestamp |-> start_time, signal_index |-> sig_idx,
                                    string_offset |-> Len(C.pool),
                                    string_length |-> Len(sv)]),
                 !.lod.last_emitted_time_[s] = start_time,
                 !.lod.last_transition_time_[s] = start_time,
                 !.lod.last_value_multi_offset_[s] = Len(C.pool),
                 !.lod.last_value_multi_length_[s] = Len(sv),
                 !.lod.signal_is_glitch_[s] = FALSE]

emit_initial_multibit(C, start_time, sig_idx, sv) ==
    LET s == sig_idx + 1
    IN [C EXCEPT !.pool = @ \o sv,
                 !.last_index[s] = Len(C.res),
                 !.res = Append(@, [timestamp |-> start_time, signal_index |-> sig_idx,
                                    string_offset |-> Len(C.pool),
                                    string_length |-> Len(sv)]),
                 !.lod.last_emitted_time_[s] = start_time,
                 !.lod.last_transition_time_[s] = start_time,
                 !.lod.last_value_multi_offset_[s] = Len(C.pool),
                 !.lod.last_value_multi_length_[s] = Len(sv),
                 !.lod.signal_is_glitch_[s] = FALSE]

\* one iteration of the loop of flush_glitches; F is the record
\* [lod, res_1bit, last_index_1bit, res_multibit, last_index_multi]
flush_glitch_at(F, sig_idx) ==
    LET s == sig_idx + 1
        L == F.lod
        ltt == L.last_transition_time_[s]
        pushed ==
            IF sig_idx < Len(L.last_value_1bit_) /\ F.last_index_1bit[s] # -1
            THEN [F EXCEPT !.last_index_1bit[s] = Len(F.res_1bit),
                           !.res_1bit = Append(@, [timestamp |-> ltt, signal_index |-> sig_idx,
                                                   value |-> L.last_value_1bit_[s]])]
            ELSE IF sig_idx < Len(L.glitch_end_multi_offset_) /\ F.last_index_multi[s] # -1
            THEN [F EXCEPT !.last_index_multi[s] = Len(F.res_multibit),
                           !.res_multibit =
                               Append(@, [timestamp |-> ltt, signal_index |-> sig_idx,
                                          string_offset |-> L.glitch_end_multi_offset_[s],
                                          string_length |-> L.glitch_end_multi_length_[s]])]
            ELSE F
    IN IF L.signal_is_glitch_[s]
       THEN [pushed EXCEPT !.lod.signal_is_glitch_[s] = FALSE,
                           !.lod.last_emitted_time_[s] = ltt]
       ELSE F

RECURSIVE flush_glitches_from(_, _)
flush_glitches_from(F, sig_idx) ==
    IF sig_idx >= Len(F.lod.signal_is_glitch_) THEN F
    ELSE flush_glitches_from(flush_glitch_at(F, sig_idx), sig_idx + 1)

\* a flush_glitches that closes no glitch
flush_glitches_none(F) == F

flush_glitches(F) == flush_glitches_from(F, 0)

-----------------------------------------------------------------------------
(* Recording a transition of a queried signal.  The parser of              *)
(* src/src/vcd_parser.cpp pushes it onto the result vectors; the parser    *)
(* with the five-argument begin_query passes it through its LodManager.    *)

lod_1bit(I) == [lod |-> I.lod_manager, res |-> I.query_res_1bit,
                last_index |-> I.last_index_1bit, pool |-> I.query_string_pool]
lod_multibit(I) == [lod |-> I.lod_manager, res |-> I.query_res_multibit,
                    last_index |-> I.last_index_multi, pool |-> I.query_string_pool]
from_lod_1bit(I, C) ==
    [I EXCEPT !.lod_manager = C.lod, !.query_res_1bit = C.res,
              !.last_index_1bit = C.last_index]
from_lod_multibit(I, C) ==
    [I EXCEPT !.lod_manager = C.lod, !.query_res_multibit = C.res,
              !.last_index_multi = C.last_index, !.query_string_pool = C.pool]

push_1bit(I, t, idx, v) ==
    [I EXCEPT !.query_res_1bit =
        Append(@, [timestamp |-> t, signal_index |-> idx, value |-> v])]

push_multibit(I, t, idx, val_tok) ==
    [I EXCEPT !.query_string_pool = @ \o val_tok,
              !.query_res_multibit =
                  Append(@, [timestamp |-> t, signal_index |-> idx,
                             string_offset |-> Len(I.query_string_pool),
                             string_length |-> Len(val_tok)])]

record_1bit(I, idx, v, old_v) ==
    IF I.with_lod
    THEN from_lod_1bit(I, process_1bit(lod_1bit(I), I.current_time, idx, v, old_v))
    ELSE push_1bit(I, I.current_time, idx, v)

record_multibit(I, idx, val_tok, old_v) ==
    IF I.with_lod
    THEN from_lod_multibit(I, process_multibit(lod_multibit(I), I.current_time, idx,
                                               val_tok, old_v))
    ELSE push_multibit(I, I.current_time, idx, val_tok)

record_initial_1bit(I, idx, v) ==
    IF I.with_lod
    THEN from_lod_1bit(I, emit_initial_1bit(lod_1bit(I), I.query_t_begin, idx, v))
    ELSE push_1bit(I, I.query_t_begin, idx, v)

record_initial_multibit(I, idx, sv) ==
    IF I.with_lod
    THEN from_lod_multibit(I, emit_initial_multibit(lod_multibit(I), I.query_t_begin,
                                                    idx, sv))
    ELSE push_multibit(I, I.query_t_begin, idx, sv)

-----------------------------------------------------------------------------
(* apply_value_change                                                      *)

is_1bit_char(c) == c \in {"0", "1", "x", "X", "z", "Z"}
is_vector_char(c) == c \in {"b", "B", "r", "R"}

\* the body of the loop over the alias group
apply_to_signal(I, idx, is_1bit, val_tok, emit) ==
    LET sig == I.signal_defs[idx + 1]
    IN IF sig.width = 1 /\ is_1bit
       THEN IF sig.bit_index \div 32 >= Len(I.current_state_1bit)
            THEN [I EXCEPT !.ub = TRUE]
            ELSE LET v == char_to_val2b(val_tok[1])
                     old_v == get_1bit_state(I.current_state_1bit, sig.bit_index)
                     J == [I EXCEPT !.current_state_1bit =
                                        set_1bit_state(@, sig.bit_index, v)]
                 IN IF ~emit THEN J
                    ELSE IF idx >= Len(J.is_signal_queried) THEN [J EXCEPT !.ub = TRUE]
                    ELSE IF J.is_signal_queried[idx + 1] THEN record_1bit(J, idx, v, old_v)
                    ELSE J
       ELSE IF sig.width > 1
       THEN IF sig.str_index >= Len(I.current_state_multibit)
            THEN [I EXCEPT !.ub = TRUE]
            ELSE LET old_v == I.current_state_multibit[sig.str_index + 1]
                     J == [I EXCEPT !.current_state_multibit[sig.str_index + 1] = val_tok]
                 IN IF ~emit THEN J
                    ELSE IF idx >= Len(J.is_signal_queried) THEN [J EXCEPT !.ub = TRUE]
                    ELSE IF J.is_signal_queried[idx + 1]
                    THEN record_multibit(J, idx, val_tok, old_v)
                    ELSE J
       ELSE I

RECURSIVE apply_to_aliases(_, _, _, _, _, _)
apply_to_aliases(I, idxs, k, is_1bit, val_tok, emit) ==
    IF k > Len(idxs) THEN I
    ELSE apply_to_aliases(apply_to_signal(I, idxs[k], is_1bit, val_tok, emit),
                          idxs, k + 1, is_1bit, val_tok, emit)

apply_value_change(I, token, emit) ==
    IF token = <<>> THEN I
    ELSE LET c == token[1]
             is_1bit == is_1bit_char(c)
             space == find(token, " ", 0)
             val_tok == IF is_1bit THEN substr(token, 0, 1) ELSE substr(token, 0, space)
             id_tok == IF is_1bit THEN substr(token, 1, NPOS)
                       ELSE trim(substr(token, space + 1, NPOS))
         IN IF ~is_1bit /\ ~is_vector_char(c) THEN I
            ELSE IF ~is_1bit /\ space = NPOS THEN I
            ELSE IF id_tok \notin DOMAIN I.id_to_index THEN I
            ELSE apply_to_aliases(I, I.id_to_index[id_tok], 1, is_1bit, val_tok, emit)

-----------------------------------------------------------------------------
(* Header parsing                                                          *)

\* the tokens of the $var line: the loop over s_pos
RECURSIVE var_toks(_, _)
var_toks(line, s_pos) ==
    IF s_pos >= Len(line) THEN <<>>
    ELSE LET found == find(line, " ", s_pos)
             s_next == IF found = NPOS THEN Len(line) ELSE found
             t == substr(line, s_pos, s_next - s_pos)
         IN (IF t # <<>> THEN <<t>> ELSE <<>>) \o var_toks(line, s_next + 1)

joined_path(scope_path, name) ==
    IF scope_path = <<>> THEN name ELSE scope_path \o <<".">> \o name

parse_scope(I, line) ==
    LET first_space == find(line, " ", 0)
        second_space == IF first_space # NPOS THEN find(line, " ", first_space + 1)
                        ELSE NPOS
        rest == substr(line, second_space + 1, NPOS)
        end_kw == find_str(rest, kw_end)
        name == IF end_kw # NPOS THEN trim(substr(rest, 0, end_kw)) ELSE rest
        child == [name |-> name,
                  full_path |-> joined_path(I.scopes[I.current_scope].full_path, name),
                  parent |-> I.current_scope, signal_indices |-> <<>>]
    IN IF second_space = NPOS THEN I
       ELSE [I EXCEPT !.scopes = Append(@, child),
                      !.current_scope = Len(I.scopes) + 1]

\* the registration of the signal at the end of the $var branch
parse_var_add(I, sig) ==
    [I EXCEPT
        !.num_1bit = IF sig.width = 1 THEN @ + 1 ELSE @,
        !.num_multibit = IF sig.width = 1 THEN @ ELSE @ + 1,
        !.scopes[I.current_scope].signal_indices = Append(@, sig.index),
        !.id_to_index =
            IF sig.id_code \in DOMAIN @
            THEN [@ EXCEPT ![sig.id_code] = Append(@, sig.index)]
            ELSE (sig.id_code :> <<sig.index>>) @@ @,
        !.path_to_index = (sig.full_path :> sig.index) @@ @,
        !.signal_defs = Append(@, sig)]

\* the $var branch once std::stoi has converted the width token into w
parse_var_width(I, toks, w) ==
    IF ~w.ok THEN [I EXCEPT !.thrown = TRUE]
    ELSE parse_var_add(I,
             [name |-> toks[5],
              full_path |-> joined_path(I.scopes[I.current_scope].full_path, toks[5]),
              id_code |-> toks[4], width |-> w.val, index |-> Len(I.signal_defs),
              bit_index |-> IF w.val = 1 THEN I.num_1bit ELSE UINT32_MAX,
              str_index |-> IF w.val = 1 THEN UINT32_MAX ELSE I.num_multibit])

\* the $var branch once the line is split into toks
parse_var_toks(I, toks) ==
    IF Len(toks) < 5 THEN I ELSE parse_var_width(I, toks, stonum(toks[3]))

parse_var(I, line) == parse_var_toks(I, var_toks(line, 0))

\* the $timescale branch once the text before $end is trimmed into ts_val and
\* its leading digits are counted into dig
parse_timescale_val(I, ts_val, dig) ==
    [I EXCEPT
        !.ts.magnitude = IF dig > 0 THEN stonum(substr(ts_val, 0, dig)).val ELSE @,
        !.ts.unit = IF dig < Len(ts_val)
                    THEN parse_time_unit(trim(substr(ts_val, dig, NPOS))) ELSE @]

\* the number of leading digits of ts_val
leading_digits(ts_val) ==
    LET nondig == {i \in 0 .. Len(ts_val) - 1 : ~IsDigit(ts_val[i + 1])}
    IN IF nondig = {} THEN Len(ts_val) ELSE SetMin(nondig)

\* the text of the $timescale line between the keyword and $end
timescale_text(after, end_kw) ==
    trim(IF end_kw # NPOS THEN substr(after, 0, end_kw) ELSE after)

parse_timescale_after(I, ts_val) == parse_timescale_val(I, ts_val, leading_digits(ts_val))

parse_timescale(I, line) ==
    parse_timescale_after(I, timescale_text(substr(line, 10, NPOS),
                                            find_str(substr(line, 10, NPOS), kw_end)))

parse_header_line(I, line) ==
    IF starts_with(line, kw_enddefinitions)
    THEN prepare_states([I EXCEPT !.header_done = TRUE])
    ELSE IF starts_with(line, kw_dumpvars) THEN [I EXCEPT !.parse_state = "Data"]
    ELSE IF starts_with(line, kw_scope) THEN parse_scope(I, line)
    ELSE IF starts_with(line, kw_upscope)
    THEN IF I.scopes[I.current_scope].parent # 0
         THEN [I EXCEPT !.current_scope = I.scopes[I.current_scope].parent]
         ELSE I
    ELSE IF starts_with(line, kw_var) THEN parse_var(I, line)
    ELSE IF starts_with(line, kw_timescale) THEN parse_timescale(I, line)
    ELSE I

-----------------------------------------------------------------------------
(* Data-section parsing                                                    *)

\* scaled from 10 MB to the size of the model's traces
SNAPSHOT_INTERVAL == 8

\* a snapshot that records the time and the offset but not the 1-bit states
take_snapshot_unpacked(I, line_abs_offset) ==
    [I EXCEPT !.snapshots =
                  Append(@, [time |-> I.current_time, file_offset |-> line_abs_offset,
                             packed_1bit_states |-> prepare_states(I).current_state_1bit,
                             multibit_states |-> I.current_state_multibit]),
              !.last_snapshot_file_offset = line_abs_offset]

take_snapshot(I, line_abs_offset) ==
    [I EXCEPT !.snapshots =
                  Append(@, [time |-> I.current_time, file_offset |-> line_abs_offset,
                             packed_1bit_states |-> I.current_state_1bit,
                             multibit_states |-> I.current_state_multibit]),
              !.last_snapshot_file_offset = line_abs_offset]

\* the final snapshot of finish_indexing
take_final(I) ==
    [I EXCEPT !.snapshots =
                  Append(@, [time |-> I.current_time,
                             file_offset |-> I.leftover_file_offset,
                             packed_1bit_states |-> I.current_state_1bit,
                             multibit_states |-> I.current_state_multibit])]

RECURSIVE emit_initial_from(_, _)
emit_initial_from(I, k) ==
    IF k > Len(I.query_signal_indices) THEN I
    ELSE LET idx == I.query_signal_indices[k]
             sig == I.signal_defs[idx + 1]
             J == IF idx >= Len(I.signal_defs) THEN I
                  ELSE IF sig.width = 1
                  THEN IF sig.bit_index \div 32 >= Len(I.current_state_1bit)
                       THEN [I EXCEPT !.ub = TRUE]
                       ELSE record_initial_1bit(I, idx,
                                get_1bit_state(I.current_state_1bit, sig.bit_index))
                  ELSE IF sig.str_index >= Len(I.current_state_multibit)
                       THEN [I EXCEPT !.ub = TRUE]
                       ELSE record_initial_multibit(I, idx,
                                I.current_state_multibit[sig.str_index + 1])
         IN emit_initial_from(J, k + 1)

\* the initial transitions stamped with the time the parser has reached
emit_query_initial_state_now(I) ==
    [emit_initial_from([I EXCEPT !.query_t_begin = I.current_time], 1)
        EXCEPT !.query_t_begin = I.query_t_begin]

emit_query_initial_state(I) == emit_initial_from(I, 1)

\* a '#' branch that marks the query done behind query_t_end and goes on
timestamp_done_continues(started) ==
    IF started.current_time > started.query_t_end
    THEN [impl |-> [started EXCEPT !.query_done = TRUE], ret |-> TRUE]
    ELSE [impl |-> started, ret |-> TRUE]

\* the end of the '#' branch: the query stops behind query_t_end
timestamp_done(started) ==
    IF started.current_time > started.query_t_end
    THEN [impl |-> [started EXCEPT !.query_done = TRUE], ret |-> FALSE]
    ELSE [impl |-> started, ret |-> TRUE]

\* the '#' branch after current_time is set: the initial state of a query
timestamp_query(timed) ==
    IF timed.phase # "Querying" THEN [impl |-> timed, ret |-> TRUE]
    ELSE IF ~timed.query_initial_emitted /\ timed.current_time >= timed.query_t_begin
    THEN timestamp_done([emit_query_initial_state(timed) EXCEPT
                            !.query_initial_emitted = TRUE])
    ELSE timestamp_done(timed)

\* the '#' branch after the snapshot: the new time becomes the current time
timestamp_set(indexed, t) ==
    timestamp_query([indexed EXCEPT !.current_time = t,
                                    !.t_begin = IF indexed.first_ts THEN t ELSE @,
                                    !.first_ts = FALSE,
                                    !.t_end = t])

\* a '#' branch that takes a snapshot at every timestamp line
timestamp_snapshot_every(I, line_abs_offset) ==
    IF I.phase # "Indexing" THEN I
    ELSE [take_snapshot(I, line_abs_offset) EXCEPT !.past_first_snapshot = TRUE]

\* the snapshot of the '#' branch while indexing
timestamp_snapshot(I, line_abs_offset) ==
    IF I.phase # "Indexing" THEN I
    ELSE IF ~I.past_first_snapshot
    THEN [take_snapshot(I, line_abs_offset) EXCEPT !.past_first_snapshot = TRUE]
    ELSE IF line_abs_offset >= I.last_snapshot_file_offset + SNAPSHOT_INTERVAL
    THEN take_snapshot(I, line_abs_offset)
    ELSE I

\* the '#' branch once std::stoull has converted the digits into new_time
timestamp_at(I, new_time, line_abs_offset) ==
    IF ~new_time.ok THEN [impl |-> [I EXCEPT !.thrown = TRUE], ret |-> TRUE]
    ELSE timestamp_set(timestamp_snapshot(I, line_abs_offset), new_time.val)

\* the '#' branch of parse_data_line
parse_timestamp(I, line, line_abs_offset) ==
    timestamp_at(I, stonum(substr(line, 1, NPOS)), line_abs_offset)

\* the '$' branch of parse_data_line
parse_dump(I, line) ==
    LET v_pos == find(line, " ", 0)
        rest == substr(line, v_pos + 1, NPOS)
        e_pos == rfind_str(rest, kw_end)
        content == trim(IF e_pos # NPOS THEN substr(rest, 0, e_pos) ELSE rest)
    IN IF starts_with(line, kw_dump) /\ v_pos # NPOS /\ content # <<>>
       THEN apply_value_change(I, content, FALSE)
       ELSE I

\* the loop over the value changes of one line
RECURSIVE value_changes(_, _, _, _)
value_changes(I, line, s_pos, emit) ==
    IF s_pos >= Len(line) THEN I
    ELSE LET rem == substr(line, s_pos, NPOS)
             sp1 == find(rem, " ", 0)
             sp2 == find(rem, " ", sp1 + 1)
             is_vector == is_vector_char(rem[1])
             tok == IF is_vector THEN substr(rem, 0, sp2) ELSE substr(rem, 0, sp1)
             s_next == IF sp1 = NPOS THEN Len(line)
                       ELSE IF is_vector THEN s_pos + Len(tok) + 1
                       ELSE s_pos + sp1 + 1
         IN IF is_vector /\ sp1 = NPOS THEN I
            ELSE value_changes(apply_value_change(I, tok, emit), line, s_next, emit)

\* a parse_data_line that records changes before the initial state is emitted
parse_data_line_eager(I, line, line_abs_offset) ==
    IF line[1] = "#" THEN parse_timestamp(I, line, line_abs_offset)
    ELSE IF line[1] = "$" THEN [impl |-> parse_dump(I, line), ret |-> TRUE]
    ELSE LET emit == I.phase = "Querying" /\ I.current_time <= I.query_t_end
         IN [impl |-> value_changes(I, line, 0, emit), ret |-> TRUE]

parse_data_line(I, line, line_abs_offset) ==
    IF line[1] = "#" THEN parse_timestamp(I, line, line_abs_offset)
    ELSE IF line[1] = "$" THEN [impl |-> parse_dump(I, line), ret |-> TRUE]
    ELSE LET emit == I.phase = "Querying" /\ I.query_initial_emitted
                     /\ I.current_time <= I.query_t_end
         IN [impl |-> value_changes(I, line, 0, emit), ret |-> TRUE]

-----------------------------------------------------------------------------
(* process_buffer and push_chunk                                           *)

\* what process_buffer does with one non-empty line
process_line(I, line, line_abs_offset) ==
    IF I.parse_state = "Header" /\ ~(I.header_done /\ line[1] # "$")
    THEN [impl |-> parse_header_line(I, line), ret |-> TRUE]
    ELSE parse_data_line([I EXCEPT !.parse_state = "Data"], line, line_abs_offset)

\* the while loop of process_buffer from position pos on; an exception
\* leaves the loop with the state the parser had when it was thrown
RECURSIVE process_from(_, _, _, _)

\* the loop after a line has given the result R
process_after(R, buf, buf_file_offset, pos) ==
    IF R.impl.thrown \/ ~R.ret THEN R
    ELSE process_from(R.impl, buf, buf_file_offset, pos)

process_from(I, buf, buf_file_offset, pos) ==
    IF pos >= Len(buf) THEN [impl |-> I, ret |-> TRUE]
    ELSE LET found == find(buf, "\n", pos)
             eol == IF found = NPOS THEN Len(buf) ELSE found
             line == trim(substr(buf, pos, eol - pos))
         IN IF line = <<>> THEN process_from(I, buf, buf_file_offset, eol + 1)
            ELSE process_after(process_line(I, line, buf_file_offset + pos),
                               buf, buf_file_offset, eol + 1)

process_buffer(I, buf, buf_file_offset) == process_from(I, buf, buf_file_offset, 0)

\* push_chunk after process_buffer has given the result R
push_chunk_keep(R, rest, rest_file_offset) ==
    IF R.impl.thrown THEN R
    ELSE [impl |-> [R.impl EXCEPT !.leftover = rest,
                                  !.leftover_file_offset = rest_file_offset],
          ret |-> R.ret]

\* a push_chunk that leaves leftover_file_offset where it was
push_chunk_lines_unshifted(appended, last_nl) ==
    IF last_nl = NPOS THEN [impl |-> appended, ret |-> TRUE]
    ELSE push_chunk_keep(
             process_buffer(appended, substr(appended.leftover, 0, last_nl + 1),
                            appended.leftover_file_offset),
             substr(appended.leftover, last_nl + 1, NPOS),
             appended.leftover_file_offset)

\* push_chunk after the chunk is appended to the leftover
push_chunk_lines(appended, last_nl) ==
    IF last_nl = NPOS THEN [impl |-> appended, ret |-> TRUE]
    ELSE push_chunk_keep(
             process_buffer(appended, substr(appended.leftover, 0, last_nl + 1),
                            appended.leftover_file_offset),
             substr(appended.leftover, last_nl + 1, NPOS),
             appended.leftover_file_offset + last_nl + 1)

\* a push_chunk that forgets the leftover of the chunk before
push_chunk_forgetful(I, data) ==
    push_chunk_lines([I EXCEPT !.leftover = data], find_last_of(data, "\n"))

push_chunk(I, data) ==
    push_chunk_lines([I EXCEPT !.leftover = @ \o data],
                     find_last_of(I.leftover \o data, "\n"))

-----------------------------------------------------------------------------
(* VcdParser public API                                                    *)

\* VcdParser::VcdParser()
constructed == reset_state(ImplDefault)

is_open(I) == I.header_done
time_begin(I) == I.t_begin
time_end(I) == I.t_end
snapshot_count(I) == Len(I.snapshots)

begin_indexing(I) == [reset_state(I) EXCEPT !.phase = "Indexing"]

push_chunk_for_index(I, data) == push_chunk(I, data)

\* the final snapshot and the return to Idle
finish_indexing_final(flushed) ==
    IF flushed.thrown THEN flushed
    ELSE IF flushed.snapshots = <<>>
            \/ flushed.snapshots[Len(flushed.snapshots)].time < flushed.current_time
    THEN [take_final(flushed) EXCEPT !.phase = "Idle"]
    ELSE [flushed EXCEPT !.phase = "Idle"]

\* the leftover has been processed with the result R
finish_indexing_flushed(R) ==
    finish_indexing_final(IF R.impl.thrown THEN R.impl
                          ELSE [R.impl EXCEPT !.leftover = <<>>])

\* a finish_indexing that drops the leftover instead of parsing it
finish_indexing_unflushed(I) == finish_indexing_final([I EXCEPT !.leftover = <<>>])

finish_indexing(I) ==
    IF I.leftover # <<>>
    THEN finish_indexing_flushed(process_buffer(I, I.leftover, I.leftover_file_offset))
    ELSE finish_indexing_final(I)

\* the result of the binary search of get_query_plan
RECURSIVE plan_search(_, _, _, _)
plan_search(snaps, start_time, lo, hi) ==
    IF lo >= hi THEN lo
    ELSE LET mid == lo + (hi - lo) \div 2
         IN IF snaps[mid + 1].time <= start_time
            THEN plan_search(snaps, start_time, mid + 1, hi)
            ELSE plan_search(snaps, start_time, lo, mid)

\* the binary search with < in the place of <=
RECURSIVE plan_search_strict(_, _, _, _)
plan_search_strict(snaps, start_time, lo, hi) ==
    IF lo >= hi THEN lo
    ELSE LET mid == lo + (hi - lo) \div 2
         IN IF snaps[mid + 1].time < start_time
            THEN plan_search_strict(snaps, start_time, mid + 1, hi)
            ELSE plan_search_strict(snaps, start_time, lo, mid)

get_query_plan_strict(I, start_time) ==
    IF I.snapshots = <<>>
    THEN [file_offset |-> 0, snapshot_time |-> 0, snapshot_index |-> 0]
    ELSE LET lo == plan_search_strict(I.snapshots, start_time, 0, Len(I.snapshots))
             si == IF lo > 0 THEN lo - 1 ELSE 0
         IN [file_offset |-> I.snapshots[si + 1].file_offset,
             snapshot_time |-> I.snapshots[si + 1].time,
             snapshot_index |-> si]

get_query_plan(I, start_time) ==
    IF I.snapshots = <<>>
    THEN [file_offset |-> 0, snapshot_time |-> 0, snapshot_index |-> 0]
    ELSE LET lo == plan_search(I.snapshots, start_time, 0, Len(I.snapshots))
             si == IF lo > 0 THEN lo - 1 ELSE 0
         IN [file_offset |-> I.snapshots[si + 1].file_offset,
             snapshot_time |-> I.snapshots[si + 1].time,
             snapshot_index |-> si]

\* begin_query without the restoration of the snapshot's state
begin_query_keeps_state(I, start_time, end_time, signal_indices, snapshot_index) ==
    LET restored ==
            IF snapshot_index < Len(I.snapshots)
            THEN [I EXCEPT !.current_time = I.snapshots[snapshot_index + 1].time,
                           !.leftover_file_offset =
                               I.snapshots[snapshot_index + 1].file_offset]
            ELSE [prepare_states(I) EXCEPT !.current_time = 0, !.leftover_file_offset = 0]
    IN [restored EXCEPT
           !.phase = "Querying", !.query_t_begin = start_time,
           !.query_t_end = end_time, !.query_signal_indices = signal_indices,
           !.query_initial_emitted = FALSE, !.query_done = FALSE,
           !.query_res_1bit = <<>>, !.query_res_multibit = <<>>,
           !.query_string_pool = <<>>, !.leftover = <<>>, !.with_lod = FALSE,
           !.parse_state = "Data",
           !.is_signal_queried =
               [s \in 1 .. Len(restored.is_signal_queried) |->
                   \E k \in 1 .. Len(signal_indices) : signal_indices[k] = s - 1]]

\* begin_query that leaves the result spans and the string pool as they are
begin_query_keeps_buffers(I, start_time, end_time, signal_indices, snapshot_index) ==
    LET cleared == [I EXCEPT !.phase = "Querying",
                             !.query_t_begin = start_time,
                             !.query_t_end = end_time,
                             !.query_signal_indices = signal_indices,
                             !.query_initial_emitted = FALSE,
                             !.query_done = FALSE,
                             !.leftover = <<>>,
                             !.leftover_file_offset = 0,
                             !.with_lod = FALSE]
        restored ==
            IF snapshot_index < Len(I.snapshots)
            THEN LET snap == I.snapshots[snapshot_index + 1]
                 IN [cleared EXCEPT !.current_state_1bit = snap.packed_1bit_states,
                                    !.current_state_multibit = snap.multibit_states,
                                    !.current_time = snap.time,
                                    !.leftover_file_offset = snap.file_offset]
            ELSE [prepare_states(cleared) EXCEPT !.current_time = 0]
    IN [restored EXCEPT
           !.parse_state = "Data",
           !.is_signal_queried =
               [s \in 1 .. Len(restored.is_signal_queried) |->
                   \E k \in 1 .. Len(signal_indices) : signal_indices[k] = s - 1]]

begin_query(I, start_time, end_time, signal_indices, snapshot_index) ==
    LET cleared == [I EXCEPT !.phase = "Querying",
                             !.query_t_begin = start_time,
                             !.query_t_end = end_time,
                             !.query_signal_indices = signal_indices,
                             !.query_initial_emitted = FALSE,
                             !.query_done = FALSE,
                             !.query_res_1bit = <<>>,
                             !.query_res_multibit = <<>>,
                             !.query_string_pool = <<>>,
                             !.leftover = <<>>,
                             !.leftover_file_offset = 0,
                             !.with_lod = FALSE]
        restored ==
            IF snapshot_index < Len(I.snapshots)
            THEN LET snap == I.snapshots[snapshot_index + 1]
                 IN [cleared EXCEPT !.current_state_1bit = snap.packed_1bit_states,
                                    !.current_state_multibit = snap.multibit_states,
                                    !.current_time = snap.time,
                                    !.leftover_file_offset = snap.file_offset]
            ELSE [prepare_states(cleared) EXCEPT !.current_time = 0]
    IN [restored EXCEPT
           !.parse_state = "Data",
           !.is_signal_queried =
               [s \in 1 .. Len(restored.is_signal_queried) |->
                   \E k \in 1 .. Len(signal_indices) : signal_indices[k] = s - 1]]

\* a feed that does not look at query_done
push_chunk_for_query_undone(I, data) ==
    IF I.phase # "Querying" THEN [impl |-> I, ret |-> FALSE]
    ELSE push_chunk(I, data)

\* a feed that does not look at the phase
push_chunk_for_query_unphased(I, data) ==
    IF I.query_done THEN [impl |-> I, ret |-> FALSE]
    ELSE push_chunk(I, data)

\* a feed that reads its chunk without the leftover of the feed before
push_chunk_for_query_afresh(I, data) ==
    IF I.phase # "Querying" THEN [impl |-> I, ret |-> FALSE]
    ELSE IF I.query_done THEN [impl |-> I, ret |-> FALSE]
    ELSE push_chunk([I EXCEPT !.leftover = <<>>], data)

push_chunk_for_query(I, data) ==
    IF I.phase # "Querying" THEN [impl |-> I, ret |-> FALSE]
    ELSE IF I.query_done THEN [impl |-> I, ret |-> FALSE]
    ELSE push_chunk(I, data)

\* the initial state of a query that has seen no timestamp, and the return to Idle
finish_query_final(flushed) ==
    IF flushed.thrown THEN flushed
    ELSE IF ~flushed.query_initial_emitted
    THEN [emit_query_initial_state(flushed) EXCEPT !.query_initial_emitted = TRUE,
                                                   !.phase = "Idle"]
    ELSE [flushed EXCEPT !.phase = "Idle"]

finish_query_binary(I) ==
    IF I.leftover # <<>> /\ ~I.query_done
    THEN finish_query_final(process_buffer(I, I.leftover, I.leftover_file_offset).impl)
    ELSE finish_query_final(I)

\* the three spans of the returned QueryResultBinary
binary_result(I) ==
    [transitions_1bit |-> I.query_res_1bit,
     transitions_multibit |-> I.query_res_multibit,
     string_pool |-> I.query_string_pool]

-----------------------------------------------------------------------------
(* The parser with the five-argument begin_query (include/waveform_parser.h)*)
(* passes every transition of a query through its LodManager.              *)

begin_query_lod(I, start_time, end_time, signal_indices, snapshot_index, pixel_time_step) ==
    LET B == begin_query(I, start_time, end_time, signal_indices, snapshot_index)
        n == Len(B.signal_defs)
    IN [B EXCEPT !.with_lod = TRUE,
                 !.lod_manager = lod_reset(@, n, pixel_time_step),
                 !.last_index_1bit = [s \in 1 .. n |-> -1],
                 !.last_index_multi = [s \in 1 .. n |-> -1]]

\* the parser takes back what flush_glitches has left in F
flush_query_taken(J, F) ==
    [J EXCEPT !.lod_manager = F.lod,
              !.query_res_1bit = F.res_1bit,
              !.last_index_1bit = F.last_index_1bit,
              !.query_res_multibit = F.res_multibit,
              !.last_index_multi = F.last_index_multi]

\* the open glitches of the finished query J are closed
flush_query_glitches(J) ==
    IF J.thrown THEN J
    ELSE flush_query_taken(J, flush_glitches([lod |-> J.lod_manager,
                                              res_1bit |-> J.query_res_1bit,
                                              last_index_1bit |-> J.last_index_1bit,
                                              res_multibit |-> J.query_res_multibit,
                                              last_index_multi |-> J.last_index_multi]))

flush_query_binary(I) == flush_query_glitches(finish_query_binary(I))

-----------------------------------------------------------------------------
(* Traces                                                                  *)

sp == <<" ">>
nl == <<"\n">>
end_line == sp \o kw_end \o nl

\* $var wire <width> <id> <name> $end
var_line(width, id, name) ==
    kw_var \o sp \o <<"w", "i", "r", "e">> \o sp \o width \o sp \o id \o sp \o name
    \o end_line
enddefinitions_line == kw_enddefinitions \o end_line

\* #<t>, t a string of digits
time_line(t) == <<"#">> \o t \o nl
\* a scalar change and a vector change
scalar(v, id) == <<v>> \o id \o nl
vector(bits, id) == <<"b">> \o bits \o sp \o id \o nl

id_a == <<"!">>
id_v == <<"%">>
id_c == <<"&">>

\* two 1-bit signals that share an id-code, and a 4-bit vector
HeaderAlias ==
    var_line(<<"1">>, id_a, <<"a">>) \o var_line(<<"1">>, id_a, <<"b">>)
    \o var_line(<<"4">>, id_v, <<"v">>) \o enddefinitions_line

\* two 1-bit signals with their own id-codes
HeaderTwo ==
    var_line(<<"1">>, id_a, <<"a">>) \o var_line(<<"1">>, id_c, <<"c">>)
    \o enddefinitions_line

\* two 1-bit signals that share an id-code
HeaderShared ==
    var_line(<<"1">>, id_a, <<"a">>) \o var_line(<<"1">>, id_a, <<"b">>)
    \o enddefinitions_line

\* a 1-bit signal and a 4-bit vector
HeaderVector ==
    var_line(<<"1">>, id_a, <<"a">>) \o var_line(<<"4">>, id_v, <<"v">>)
    \o enddefinitions_line

\* one 1-bit signal
HeaderOne == var_line(<<"1">>, id_a, <<"a">>) \o enddefinitions_line

\* a trace without its final newline
chop(s) == SubSeq(s, 1, Len(s) - 1)

t0 == <<"0">>
t1 == <<"1">>
t2 == <<"2">>
t3 == <<"3">>
t5 == <<"5">>

\* aliased scalars and a vector, four snapshots
TraceAlias ==
    HeaderAlias
    \o time_line(t0) \o scalar("0", id_a) \o vector(<<"0", "1", "0", "1">>, id_v)
    \o time_line(t1) \o scalar("1", id_a)
    \o time_line(t2) \o vector(<<"1", "1">>, id_v) \o scalar("0", id_a)
    \o time_line(t3) \o scalar("1", id_a)

\* '#5 1!' on two signals that share the id-code
TraceShared == HeaderShared \o time_line(t5) \o scalar("1", id_a)

\* a vector-form change of 1-bit signals
TraceVectorForm ==
    HeaderShared \o time_line(t1) \o scalar("0", id_a)
    \o time_line(t2) \o vector(<<"1">>, id_a)

\* the file ends in a timestamp line without a newline
TraceNoNewline ==
    chop(HeaderOne \o time_line(t0) \o scalar("1", id_a)
         \o time_line(t1) \o scalar("0", id_a) \o time_line(t2))

\* a snapshot is taken at the line '#2'
TraceToggle ==
    HeaderOne \o time_line(t0) \o scalar("0", id_a)
    \o time_line(t1) \o scalar("1", id_a)
    \o time_line(t2) \o scalar("0", id_a)

\* two signals, a timestamp that occurs twice
TraceTwo ==
    HeaderTwo \o time_line(t0) \o scalar("1", id_a)
    \o time_line(t1) \o scalar("0", id_c)
    \o time_line(t1) \o scalar("0", id_a) \o scalar("z", id_c)
    \o time_line(t3) \o scalar("1", id_c)

id_d == <<"$">>

\* a 4-bit vector with the id-code '$'
HeaderNibble == var_line(<<"4">>, id_d, <<"v">>) \o enddefinitions_line

\* the coalescing scenario: #0 b0000 $, #7 b0101 $, #7 b0110 $
TraceCoalesce ==
    HeaderNibble \o time_line(t0) \o vector(<<"0", "0", "0", "0">>, id_d)
    \o time_line(<<"7">>) \o vector(<<"0", "1", "0", "1">>, id_d)
    \o time_line(<<"7">>) \o vector(<<"0", "1", "1", "0">>, id_d)

\* the minimal scenario: #0 0!, #10 1!, #20 0!
TraceMinimal ==
    HeaderOne \o time_line(t0) \o scalar("0", id_a)
    \o time_line(<<"1", "0">>) \o scalar("1", id_a)
    \o time_line(<<"2", "0">>) \o scalar("0", id_a)

\* the file ends in a value change without a newline
TraceCutChange ==
    chop(HeaderOne \o time_line(t0) \o scalar("1", id_a)
         \o time_line(t1) \o scalar("0", id_a))

Traces == {TraceAlias, TraceShared, TraceVectorForm, TraceNoNewline, TraceToggle,
           TraceTwo, TraceCoalesce, TraceMinimal, TraceCutChange}

\* the glitch scenario: #0 0!, #5 1!, #8 0!, #12 1!, #500 0!
TraceGlitch ==
    HeaderOne \o time_line(t0) \o scalar("0", id_a)
    \o time_line(t5) \o scalar("1", id_a)
    \o time_line(<<"8">>) \o scalar("0", id_a)
    \o time_line(<<"1", "2">>) \o scalar("1", id_a)
    \o time_line(<<"5", "0", "0">>) \o scalar("0", id_a)

\* two signals whose changes interleave
TraceInterleaved ==
    HeaderTwo \o time_line(t0) \o scalar("0", id_a) \o scalar("0", id_c)
    \o time_line(t1) \o scalar("1", id_a)
    \o time_line(t2) \o scalar("1", id_c)
    \o time_line(t3) \o scalar("0", id_a)

\* a vector that changes several times at one timestamp
TraceVector ==
    HeaderVector \o time_line(t0) \o vector(<<"0">>, id_v) \o scalar("0", id_a)
    \o time_line(t1) \o vector(<<"1">>, id_v) \o vector(<<"0">>, id_v)
    \o scalar("1", id_a)
    \o time_line(t2) \o vector(<<"1", "1">>, id_v) \o scalar("0", id_a)
    \o time_line(t3) \o vector(<<"0">>, id_v)

LodTraces == {TraceGlitch, TraceInterleaved, TraceVector, TraceCoalesce, TraceMinimal}

\* a trace with '$timescale 10ps $end' before its declarations
TraceTimescale ==
    kw_timescale \o sp \o <<"1", "0", "p", "s">> \o end_line
    \o HeaderOne \o time_line(t0) \o scalar("1", id_a)

\* the header-only scenario, several directives on a line:
\* '$timescale 1ns $end $scope module top $end'
\* '$var wire 1 ! clk $end $upscope $end $enddefinitions $end'
TraceHeaderOnly ==
    kw_timescale \o sp \o <<"1", "n", "s">> \o sp \o kw_end \o sp
    \o kw_scope \o sp \o <<"m", "o", "d", "u", "l", "e">> \o sp \o <<"t", "o", "p">>
    \o end_line
    \o kw_var \o sp \o <<"w", "i", "r", "e">> \o sp \o <<"1">> \o sp \o id_a \o sp
    \o <<"c", "l", "k">> \o sp \o kw_end \o sp \o kw_upscope \o sp \o kw_end \o sp
    \o enddefinitions_line

\* the traces of a caller that uses the whole interface
ApiTraces == {TraceShared, TraceToggle, TraceTimescale, TraceHeaderOnly}

-----------------------------------------------------------------------------
(* The driver (src/src/main.cpp): it indexes the file chunk by chunk, then *)
(* runs queries, each one a plan, a begin, chunks from the planned offset  *)
(* and a finish.                                                           *)

VARIABLES
    impl,   \* the parser
    file,   \* the bytes of the trace
    pos,    \* the offset of the next byte the driver reads
    ret,    \* what the last push_chunk_for_index / _for_query returned
    plan,   \* the QueryPlan the driver holds
    qk,     \* the snapshot index of the running or last query
    written \* the 2-bit value last written to each bit index by set_1bit_state

vars == <<impl, file, pos, ret, plan, qk, written>>

ChunkSize == 5
MaxBegin == 3
WindowLen == 10
SmallStep == 2
LargeStep == 100

\* the driver holds no plan; otherwise plan is the argument and the result of
\* its call of get_query_plan
NoPlan == [start_time |-> -1,
           result |-> [file_offset |-> 0, snapshot_time |-> 0, snapshot_index |-> 0]]

\* the sizes of the chunks the driver reads at offset pos
ChunkSizes == {ChunkSize, Len(file) - pos}

chunk(n) == SubSeq(file, pos + 1, IF pos + n > Len(file) THEN Len(file) ELSE pos + n)

\* the signal subsets of the queries: the first signal, the last one, all
Subsets(n) == {<<0>>, <<n - 1>>, [i \in 1 .. n |-> i - 1]}

QueryBegins == 0 .. MaxBegin
QueryEnds(tb) == {te \in {tb + 1, tb + WindowLen, time_end(impl)} : te >= tb}

indexed == impl.phase = "Idle" /\ impl.snapshots # <<>> /\ ~impl.thrown

Init ==
    /\ impl = constructed
    /\ file \in Traces
    /\ pos = 0
    /\ ret = TRUE
    /\ plan = NoPlan
    /\ qk = 0
    /\ written = <<>>

InitLod ==
    /\ impl = constructed
    /\ file \in LodTraces
    /\ pos = 0
    /\ ret = TRUE
    /\ plan = NoPlan
    /\ qk = 0
    /\ written = <<>>

BeginIndexing ==
    /\ impl = constructed
    /\ impl' = begin_indexing(impl)
    /\ UNCHANGED <<file, pos, ret, plan, qk, written>>

PushChunkForIndex ==
    /\ impl.phase = "Indexing" /\ ~impl.thrown
    /\ pos < Len(file)
    /\ \E n \in ChunkSizes :
          \E R \in {push_chunk_for_index(impl, chunk(n))} :
             /\ impl' = R.impl
             /\ ret' = R.ret
             /\ pos' = pos + Len(chunk(n))
    /\ UNCHANGED <<file, plan, qk, written>>

FinishIndexing ==
    /\ impl.phase = "Indexing" /\ ~impl.thrown
    /\ pos = Len(file)
    /\ impl' = finish_indexing(impl)
    /\ UNCHANGED <<file, pos, ret, plan, qk, written>>

GetQueryPlan ==
    /\ indexed
    /\ \E start_time \in QueryBegins :
          plan' = [start_time |-> start_time,
                   result |-> get_query_plan(impl, start_time)]
    /\ UNCHANGED <<impl, file, pos, ret, qk, written>>

\* main.cpp: begin_query(qb, qe, query_ids, plan.snapshot_index), after a seek to
\* the snapshot's offset; the driver may as well start from an earlier snapshot
BeginQuery ==
    /\ indexed /\ plan # NoPlan
    /\ \E te \in QueryEnds(plan.start_time) :
       \E subset \in Subsets(Len(impl.signal_defs)) :
       \E k \in 0 .. plan.result.snapshot_index :
          /\ impl' = begin_query(impl, plan.start_time, te, subset, k)
          /\ pos' = impl.snapshots[k + 1].file_offset
          /\ qk' = k
    /\ ret' = TRUE
    /\ plan' = NoPlan
    /\ UNCHANGED <<file, written>>

PushChunkForQuery ==
    /\ impl.phase = "Querying" /\ ~impl.thrown
    /\ ret
    /\ pos < Len(file)
    /\ \E n \in ChunkSizes :
          \E R \in {push_chunk_for_query(impl, chunk(n))} :
             /\ impl' = R.impl
             /\ ret' = R.ret
             /\ pos' = pos + Len(chunk(n))
    /\ UNCHANGED <<file, plan, qk, written>>

FinishQueryBinary ==
    /\ impl.phase = "Querying" /\ ~impl.thrown
    /\ ~impl.with_lod
    /\ ~ret \/ pos = Len(file)
    /\ impl' = finish_query_binary(impl)
    /\ UNCHANGED <<file, pos, ret, plan, qk, written>>

Next ==
    \/ BeginIndexing
    \/ PushChunkForIndex
    \/ FinishIndexing
    \/ GetQueryPlan
    \/ BeginQuery
    \/ PushChunkForQuery
    \/ FinishQueryBinary

Spec == Init /\ [][Next]_vars

\* pixel_time_step: disabled, one and a fraction, SmallStep, LargeStep
PixelSteps == {to_float(-1), to_float(1) + 1, to_float(SmallStep), to_float(LargeStep)}

BeginQueryLod ==
    /\ indexed /\ plan # NoPlan
    /\ \E te \in QueryEnds(plan.start_time) :
       \E subset \in Subsets(Len(impl.signal_defs)) :
       \E px \in PixelSteps :
          impl' = begin_query_lod(impl, plan.start_time, te, subset,
                                  plan.result.snapshot_index, px)
    /\ pos' = plan.result.file_offset
    /\ qk' = plan.result.snapshot_index
    /\ ret' = TRUE
    /\ plan' = NoPlan
    /\ UNCHANGED <<file, written>>

FlushQueryBinary ==
    /\ impl.phase = "Querying" /\ ~impl.thrown
    /\ impl.with_lod
    /\ ~ret \/ pos = Len(file)
    /\ impl' = flush_query_binary(impl)
    /\ UNCHANGED <<file, pos, ret, plan, qk, written>>

NextLod ==
    \/ BeginIndexing
    \/ PushChunkForIndex
    \/ FinishIndexing
    \/ GetQueryPlan
    \/ BeginQueryLod
    \/ PushChunkForQuery
    \/ FlushQueryBinary

SpecLod == InitLod /\ [][NextLod]_vars

-----------------------------------------------------------------------------
(* A caller that uses the whole interface (src/src/wasm_bindings.cpp hands *)
(* every call to the parser): it feeds chunks outside a query and after a  *)
(* feed has returned false, cancels a query, and queries a parser whose    *)
(* header never completed.                                                 *)

\* IWaveformParser::cancel_query (include/waveform_parser.h): sets done
cancel_query(I) == [I EXCEPT !.query_done = TRUE]

InitApi ==
    /\ impl = constructed
    /\ file \in ApiTraces
    /\ pos = 0
    /\ ret = TRUE
    /\ plan = NoPlan
    /\ qk = 0
    /\ written = <<>>

\* a feed after a feed of the query has returned false
PushChunkAfterStop ==
    /\ impl.phase = "Querying" /\ ~impl.thrown
    /\ ~ret
    /\ pos < Len(file)
    /\ \E n \in ChunkSizes :
          \E R \in {push_chunk_for_query(impl, chunk(n))} :
             /\ impl' = R.impl
             /\ ret' = R.ret
             /\ pos' = pos + Len(chunk(n))
    /\ UNCHANGED <<file, plan, qk, written>>

\* the bytes of a feed that belongs to no query: the first chunk of the
\* file or the whole file
StrayChunks == {SubSeq(file, 1, ChunkSize), file}

\* a feed in a phase other than Querying: before the indexing, during it,
\* after it, after a flush
PushChunkOutsideQuery ==
    /\ impl.phase # "Querying" /\ ~impl.thrown
    /\ \E data \in StrayChunks :
          \E R \in {push_chunk_for_query(impl, data)} :
             /\ impl' = R.impl
             /\ ret' = R.ret
    /\ UNCHANGED <<file, pos, plan, qk, written>>

CancelQuery ==
    /\ impl.phase = "Querying" /\ ~impl.thrown
    /\ ~impl.query_done
    /\ impl' = cancel_query(impl)
    /\ UNCHANGED <<file, pos, ret, plan, qk, written>>

\* the flush that follows a cancel_query
FlushAfterCancel ==
    /\ impl.phase = "Querying" /\ ~impl.thrown
    /\ impl.query_done
    /\ impl' = finish_query_binary(impl)
    /\ UNCHANGED <<file, pos, ret, plan, qk, written>>

NextApi ==
    \/ BeginIndexing
    \/ PushChunkForIndex
    \/ FinishIndexing
    \/ GetQueryPlan
    \/ BeginQuery
    \/ PushChunkForQuery
    \/ FinishQueryBinary
    \/ PushChunkAfterStop
    \/ PushChunkOutsideQuery
    \/ CancelQuery
    \/ FlushAfterCancel

SpecApi == InitApi /\ [][NextApi]_vars

-----------------------------------------------------------------------------
(* A caller that indexes one file after the other with one parser.         *)

\* the files: one with a $timescale directive, one without
ReopenTraces == {TraceTimescale, TraceShared}

InitReopen ==
    /\ impl = constructed
    /\ file \in ReopenTraces
    /\ pos = 0
    /\ ret = TRUE
    /\ plan = NoPlan
    /\ qk = 0
    /\ written = <<>>

\* begin_indexing on a parser that has indexed a file: the next file
Reopen ==
    /\ impl.phase = "Idle" /\ impl.snapshots # <<>> /\ ~impl.thrown
    /\ file' \in ReopenTraces
    /\ impl' = begin_indexing(impl)
    /\ pos' = 0
    /\ ret' = TRUE
    /\ plan' = NoPlan
    /\ qk' = 0
    /\ UNCHANGED written

NextReopen ==
    \/ BeginIndexing
    \/ PushChunkForIndex
    \/ FinishIndexing
    \/ GetQueryPlan
    \/ BeginQuery
    \/ PushChunkForQuery
    \/ FinishQueryBinary
    \/ Reopen

SpecReopen == InitReopen /\ [][NextReopen]_vars

-----------------------------------------------------------------------------
(* What the claims speak of                                                *)

\* a query has been finished (and none has been begun since)
query_finished == impl.phase = "Idle" /\ impl.query_initial_emitted /\ ~impl.thrown

\* the snapshot the query was begun from
query_snapshot == impl.snapshots[qk + 1]

\* the values of the timestamp lines of the trace from offset p on
RECURSIVE timestamps_from(_, _)
timestamps_from(buf, p) ==
    IF p >= Len(buf) THEN <<>>
    ELSE LET found == find(buf, "\n", p)
             eol == IF found = NPOS THEN Len(buf) ELSE found
             line == trim(substr(buf, p, eol - p))
         IN (IF line # <<>> /\ line[1] = "#"
             THEN <<stonum(substr(line, 1, NPOS)).val>> ELSE <<>>)
            \o timestamps_from(buf, eol + 1)

timestamps == timestamps_from(file, 0)

increasing == \A i \in 1 .. Len(timestamps) - 1 : timestamps[i] < timestamps[i + 1]

\* the parser after the same query run without a snapshot over the whole
\* file, given in one piece: the state is prepared afresh, the run stops at
\* the first timestamp beyond the window
whole_file_run ==
    finish_query_binary(
        push_chunk_for_query(
            begin_query(impl, impl.query_t_begin, impl.query_t_end,
                        impl.query_signal_indices, Len(impl.snapshots)),
            file).impl)

\* the parser after the same query begun from the first snapshot and fed the
\* whole file, given in one piece
first_snapshot_run ==
    finish_query_binary(
        push_chunk_for_query(
            begin_query(impl, impl.query_t_begin, impl.query_t_end,
                        impl.query_signal_indices, 0),
            file).impl)

-----------------------------------------------------------------------------
(* C1 *)

\* C1: replay equivalence.  A run begun from a snapshot s, fed from
\* s.file_offset and stopped at the first current_time > T, for T >= s.time,
\* ends with the same state of every signal as the run over the whole file.
C1_ReplayEquivalence ==
    (query_finished /\ impl.query_t_end >= query_snapshot.time)
    => /\ impl.current_state_1bit = whole_file_run.current_state_1bit
       /\ impl.current_state_multibit = whole_file_run.current_state_multibit

\* a run from a later snapshot was stopped early after it had changed the
\* state it restored
C1_Witness ==
    /\ query_finished /\ impl.query_t_end >= query_snapshot.time
    /\ qk >= 1 /\ impl.query_done
    /\ impl.current_state_1bit # query_snapshot.packed_1bit_states
    /\ query_snapshot.packed_1bit_states # prepare_states(impl).current_state_1bit

-----------------------------------------------------------------------------
(* C2 *)

\* C2: snapshot monotonicity.  After finish_indexing on a trace whose
\* timestamp lines are increasing, consecutive snapshots, the final one
\* included, have s_i.time <= s_{i+1}.time and
\* s_i.file_offset < s_{i+1}.file_offset.
C2_SnapshotMonotonicity ==
    (indexed /\ increasing)
    => \A i \in 1 .. Len(impl.snapshots) - 1 :
          /\ impl.snapshots[i].time <= impl.snapshots[i + 1].time
          /\ impl.snapshots[i].file_offset < impl.snapshots[i + 1].file_offset

-----------------------------------------------------------------------------
(* C3 *)

\* C3: snapshot replay of query results.  For a query with
\* t_begin > snapshots[k].time, the three result buffers are the same whether
\* the query is begun from snapshot k and fed from snapshots[k].file_offset or
\* begun from the first snapshot and fed from the start of the file.
C3_SnapshotReplay ==
    (query_finished /\ impl.query_t_begin > query_snapshot.time)
    => binary_result(impl) = binary_result(first_snapshot_run)

\* a query from a later snapshot, whose restored state is not all x, that
\* returned transitions after the initial ones
C3_Witness ==
    /\ query_finished /\ impl.query_t_begin > query_snapshot.time
    /\ qk >= 1
    /\ query_snapshot.packed_1bit_states # prepare_states(impl).current_state_1bit
    /\ Len(impl.query_res_1bit) > Len(impl.query_signal_indices)

-----------------------------------------------------------------------------
(* C4 *)

\* the indices of the snapshots whose time is at most t
qualifying(t) == {k \in 0 .. Len(impl.snapshots) - 1 : impl.snapshots[k + 1].time <= t}

\* C4: get_query_plan(start_time) on an indexed parser returns the largest
\* snapshot index k with snapshots[k].time <= start_time (0 if there is
\* none) with that snapshot's file_offset and time; so snapshot_time is
\* <= start_time and no later snapshot has time <= start_time.
C4_QueryPlan ==
    plan # NoPlan
    => LET k == IF qualifying(plan.start_time) = {} THEN 0
                ELSE SetMax(qualifying(plan.start_time))
       IN /\ plan.result.snapshot_index = k
          /\ plan.result.file_offset = impl.snapshots[k + 1].file_offset
          /\ plan.result.snapshot_time = impl.snapshots[k + 1].time
          /\ plan.result.snapshot_time <= plan.start_time
          /\ \A j \in k + 1 .. Len(impl.snapshots) - 1 :
                impl.snapshots[j + 1].time > plan.start_time

\* a plan that is neither the first nor the last snapshot, among snapshots two
\* of which have the same time
C4_Witness ==
    /\ plan # NoPlan
    /\ plan.result.snapshot_index >= 1
    /\ plan.result.snapshot_index < Len(impl.snapshots) - 1
    /\ plan.result.snapshot_time = impl.snapshots[plan.result.snapshot_index].time

-----------------------------------------------------------------------------
(* C5 *)

\* the value-change events of the trace from offset p on, in file order: the
\* id-code, the value and the time of every line that is a scalar or a vector
\* change (the traces of the model have one change on a line); now is the
\* value of the last timestamp line, -1 before the first
RECURSIVE events_from(_, _, _)
events_from(buf, p, now) ==
    IF p >= Len(buf) THEN <<>>
    ELSE LET found == find(buf, "\n", p)
             eol == IF found = NPOS THEN Len(buf) ELSE found
             line == trim(substr(buf, p, eol - p))
             space == find(line, " ", 0)
             event ==
                 IF line = <<>> THEN <<>>
                 ELSE IF is_1bit_char(line[1])
                 THEN <<[id |-> substr(line, 1, NPOS), value |-> <<line[1]>>,
                         time |-> now]>>
                 ELSE IF is_vector_char(line[1]) /\ space # NPOS
                 THEN <<[id |-> trim(substr(line, space + 1, NPOS)),
                         value |-> substr(line, 1, space - 1), time |-> now]>>
                 ELSE <<>>
             next == IF line # <<>> /\ line[1] = "#"
                     THEN stonum(substr(line, 1, NPOS)).val ELSE now
         IN event \o events_from(buf, eol + 1, next)

events == events_from(file, 0, -1)

\* the value the parser holds for a signal, without the radix letter
held_value(sig) ==
    IF sig.width = 1
    THEN <<val2b_to_char(get_1bit_state(impl.current_state_1bit, sig.bit_index))>>
    ELSE LET v == impl.current_state_multibit[sig.str_index + 1]
         IN IF v # <<>> /\ is_vector_char(v[1]) THEN Tail(v) ELSE v

\* the file has been indexed to its end and no query has been run
index_finished == indexed /\ impl.query_signal_indices = <<>>

\* every signal holds the value of the last event of its id-code
fanout_of_state ==
    index_finished
    => \A i \in 1 .. Len(impl.signal_defs) :
          LET sig == impl.signal_defs[i]
              mine == {e \in 1 .. Len(events) : events[e].id = sig.id_code}
          IN mine # {} => held_value(sig) = events[SetMax(mine)].value

\* the query (0, 10, [0, 1]) over '#5 1!' on two 1-bit signals that share '!'
shared_query ==
    /\ query_finished /\ file = TraceShared
    /\ impl.query_t_begin = 0 /\ impl.query_t_end = 10
    /\ impl.query_signal_indices = <<0, 1>>

\* C5: alias fanout.  After a value change with id-code c every signal
\* declared with c holds the value, whatever its width and whether the
\* change is in scalar or in vector form, and a query gets one transition
\* for each aliased signal of its subset: the query (0, 10, [0, 1]) over
\* '#5 1!' returns exactly (0,0,x), (0,1,x), (5,0,1), (5,1,1).
C5_AliasFanout ==
    /\ fanout_of_state
    /\ shared_query
       => /\ impl.query_res_1bit =
                <<[timestamp |-> 0, signal_index |-> 0, value |-> 2],
                  [timestamp |-> 0, signal_index |-> 1, value |-> 2],
                  [timestamp |-> 5, signal_index |-> 0, value |-> 1],
                  [timestamp |-> 5, signal_index |-> 1, value |-> 1]>>
          /\ impl.query_res_multibit = <<>>

-----------------------------------------------------------------------------
(* C7 *)

\* a multi-bit value without its radix letter
digits_of(v) == IF v # <<>> /\ is_vector_char(v[1]) THEN Tail(v) ELSE v

\* the transitions a finished query returned for the signal idx, in buffer
\* order, each with its value as a string
transitions_of(idx) ==
    IF impl.signal_defs[idx + 1].width = 1
    THEN LET mine == SelectSeq(impl.query_res_1bit, LAMBDA t : t.signal_index = idx)
         IN [i \in 1 .. Len(mine) |->
                [timestamp |-> mine[i].timestamp,
                 value |-> IF mine[i].value = GLITCH THEN GlitchString
                           ELSE <<val2b_to_char(mine[i].value)>>]]
    ELSE LET mine == SelectSeq(impl.query_res_multibit, LAMBDA t : t.signal_index = idx)
         IN [i \in 1 .. Len(mine) |->
                [timestamp |-> mine[i].timestamp,
                 value |-> digits_of(substr(impl.query_string_pool,
                                            mine[i].string_offset,
                                            mine[i].string_length))]]

\* the signals of the query
queried == {impl.query_signal_indices[j] : j \in 1 .. Len(impl.query_signal_indices)}

MaxOf(a, b) == IF a >= b THEN a ELSE b

\* C7 as stated: the first transition of every queried signal has the
\* timestamp max(t_begin, first_data_time), first_data_time the first
\* timestamp of the trace.
C7_FirstAtMax ==
    query_finished
    => \A idx \in queried :
          /\ transitions_of(idx) # <<>>
          /\ transitions_of(idx)[1].timestamp = MaxOf(impl.query_t_begin, timestamps[1])

\* C7 (amended): the first transition of every queried signal has the
\* timestamp t_begin, also when the trace begins after t_begin.
C7_FirstAtBegin ==
    query_finished
    => \A idx \in queried :
          /\ transitions_of(idx) # <<>>
          /\ transitions_of(idx)[1].timestamp = impl.query_t_begin

\* a query that begins before the first timestamp of the trace and returns
\* transitions of that timestamp
C7_Witness ==
    /\ query_finished
    /\ impl.query_t_begin < timestamps[1]
    /\ \A idx \in queried : Len(transitions_of(idx)) >= 2

-----------------------------------------------------------------------------
(* C8 *)

\* the value of a signal before time t: that of the last change of its
\* id-code with a timestamp < t, x without one
value_before(sig, t) ==
    LET mine == {e \in 1 .. Len(events) : events[e].id = sig.id_code /\ events[e].time < t}
    IN IF mine = {} THEN <<"x">> ELSE events[SetMax(mine)].value

\* the changes of a signal in the window of the query
changes_within(sig) ==
    {e \in 1 .. Len(events) :
        /\ events[e].id = sig.id_code
        /\ events[e].time >= impl.query_t_begin
        /\ events[e].time <= impl.query_t_end}

\* C8: initial state emission.  Every queried signal gets exactly one
\* synthetic transition at t_begin; it carries the value that results from
\* the changes with a timestamp < t_begin (x without one) and precedes the
\* other transitions of the signal, which are those of its changes in the
\* window.
C8_InitialState ==
    query_finished
    => \A idx \in queried :
          LET sig == impl.signal_defs[idx + 1]
              mine == transitions_of(idx)
          IN /\ mine # <<>>
             /\ mine[1].timestamp = impl.query_t_begin
             /\ mine[1].value = value_before(sig, impl.query_t_begin)
             /\ Len(mine) = 1 + Cardinality(changes_within(sig))

-----------------------------------------------------------------------------
(* C6 *)

non_decreasing(span) ==
    \A i \in 1 .. Len(span) - 1 : span[i].timestamp <= span[i + 1].timestamp

\* C6: query result ordering.  At the end of a query, with or without LOD
\* and for any number of queried signals, the timestamps of the 1-bit span
\* and of the multi-bit span are non-decreasing in buffer order, and the
\* transitions of each signal are in the order in which its changes were
\* parsed.
C6_ResultOrdering ==
    query_finished
    => /\ non_decreasing(impl.query_res_1bit)
       /\ non_decreasing(impl.query_res_multibit)
       /\ \A idx \in queried : non_decreasing(transitions_of(idx))

-----------------------------------------------------------------------------
(* C9 *)

Dist(a, b) == IF a >= b THEN a - b ELSE b - a

\* two timestamps lie in one interval [t, t + p)
one_slot(a, b) == to_float(Dist(a, b)) < impl.lod_manager.pixel_time_step_

\* C9: LOD bound.  With pixel_time_step = p > 0, no interval [t, t + p)
\* holds two transitions of one queried signal, unless a transition of the
\* signal in that interval is a GLITCH marker.
C9_LodBound ==
    (query_finished /\ impl.lod_manager.pixel_time_step_ > 0)
    => \A idx \in queried :
          LET mine == transitions_of(idx)
          IN \A i, j \in 1 .. Len(mine) :
                (i < j /\ one_slot(mine[i].timestamp, mine[j].timestamp))
                => \E g \in 1 .. Len(mine) :
                      /\ mine[g].value = GlitchString
                      /\ one_slot(mine[g].timestamp, mine[i].timestamp)
                      /\ one_slot(mine[g].timestamp, mine[j].timestamp)

-----------------------------------------------------------------------------
(* C10 *)

\* the query over the whole glitch trace with pixel_time_step = 100
glitch_query ==
    /\ query_finished /\ file = TraceGlitch
    /\ impl.query_t_begin = 0 /\ impl.query_t_end = 500
    /\ impl.query_signal_indices = <<0>>
    /\ impl.lod_manager.pixel_time_step_ = to_float(100)

\* C10 as stated: the query returns (0,0,0), (5,0,GLITCH), (12,0,1),
\* (500,0,0): one GLITCH marker at time 5, closed at 12 with the actual
\* value.
C10_GlitchAtFive ==
    glitch_query
    => impl.query_res_1bit =
          <<[timestamp |-> 0, signal_index |-> 0, value |-> 0],
            [timestamp |-> 5, signal_index |-> 0, value |-> GLITCH],
            [timestamp |-> 12, signal_index |-> 0, value |-> 1],
            [timestamp |-> 500, signal_index |-> 0, value |-> 0]>>

\* C10 (amended): the query returns (0,0,GLITCH), (12,0,1), (500,0,0): the
\* transition emitted last before the sub-pixel run, the one at time 0,
\* becomes the GLITCH marker; the run is closed at 12 with the actual value.
C10_GlitchAtZero ==
    glitch_query
    => impl.query_res_1bit =
          <<[timestamp |-> 0, signal_index |-> 0, value |-> GLITCH],
            [timestamp |-> 12, signal_index |-> 0, value |-> 1],
            [timestamp |-> 500, signal_index |-> 0, value |-> 0]>>

\* the query of the scenario has read the file to its end and has been flushed
C10_Witness == glitch_query /\ Len(impl.query_res_1bit) = 3 /\ pos = Len(file)

-----------------------------------------------------------------------------
(* C11 *)

\* the timestamps in the window of the query at which the signal has two or
\* more changes in the file
crowded(sig) ==
    {events[e].time : e \in {d \in changes_within(sig) :
        \E c \in changes_within(sig) : c # d /\ events[c].time = events[d].time}}

\* the last value the file writes to the signal at time t
last_written(sig, t) ==
    events[SetMax({e \in changes_within(sig) : events[e].time = t})].value

\* the transitions of the signal idx with the timestamp t
transitions_at(idx, t) == SelectSeq(transitions_of(idx), LAMBDA r : r.timestamp = t)

\* the signal has one transition at every crowded timestamp, with the last value
coalesced(idx) ==
    \A t \in crowded(impl.signal_defs[idx + 1]) :
       /\ Len(transitions_at(idx, t)) = 1
       /\ transitions_at(idx, t)[1].value = last_written(impl.signal_defs[idx + 1], t)

\* C11: same-timestamp coalescing.  A queried signal that gets several value
\* changes at one timestamp, on one '#t' line or on repeated ones, has
\* exactly one transition at that timestamp, and it carries the last value
\* written; '#0 b0000 $', '#7 b0101 $', '#7 b0110 $' gives one transition at
\* 7 with the value 0110.
C11_Coalescing == query_finished => \A idx \in queried : coalesced(idx)

\* the coalescing scenario has been queried over its whole length
coalesce_query ==
    /\ query_finished /\ file = TraceCoalesce
    /\ impl.query_t_begin = 0 /\ impl.query_t_end = 7
    /\ impl.query_signal_indices = <<0>>

\* C11 for a parser that passes its transitions through LodManager with
\* pixel_time_step < 0: LodManager::process_1bit and process_multibit
\* overwrite the transition they emitted last at the same timestamp.
C11_CoalescingNoLod ==
    (query_finished /\ impl.lod_manager.pixel_time_step_ < 0)
    => /\ \A idx \in queried : coalesced(idx)
       /\ coalesce_query
          => transitions_at(0, 7) = <<[timestamp |-> 7, value |-> <<"0", "1", "1", "0">>]>>

-----------------------------------------------------------------------------
(* C12 *)

\* the value the file gives the signal up to and including time t
value_at(sig, t) == value_before(sig, t + 1)

\* the value the signal has in the file just before its change e
value_until(sig, e) ==
    LET mine == {d \in 1 .. e - 1 : events[d].id = sig.id_code}
    IN IF mine = {} THEN <<"x">> ELSE events[SetMax(mine)].value

\* the timestamps in the window at which the signal changed
changed_at(sig) ==
    {events[e].time : e \in {d \in changes_within(sig) :
                                 events[d].value # value_until(sig, d)}}

\* the signal has one transition at t_begin and one at every timestamp at
\* which it changed, each with the value the file gives it at that timestamp
one_per_timestamp(idx) ==
    LET sig == impl.signal_defs[idx + 1]
        mine == transitions_of(idx)
        times == {impl.query_t_begin} \cup changed_at(sig)
    IN /\ Len(mine) = Cardinality(times)
       /\ \A i \in 1 .. Len(mine) :
             /\ mine[i].timestamp \in times
             /\ mine[i].value = value_at(sig, mine[i].timestamp)
       /\ \A i \in 1 .. Len(mine) - 1 : mine[i].timestamp < mine[i + 1].timestamp

\* the query (0, 20, [0]) over '#0 0!', '#10 1!', '#20 0!'
minimal_query ==
    /\ query_finished /\ file = TraceMinimal
    /\ impl.query_t_begin = 0 /\ impl.query_t_end = 20
    /\ impl.query_signal_indices = <<0>>

\* the result (0,0,0), (10,0,1), (20,0,0) and no multi-bit transition
minimal_result ==
    /\ transitions_of(0) = <<[timestamp |-> 0, value |-> <<"0">>],
                             [timestamp |-> 10, value |-> <<"1">>],
                             [timestamp |-> 20, value |-> <<"0">>]>>
    /\ Len(impl.query_res_1bit) = 3
    /\ impl.query_res_multibit = <<>>

\* C12: minimal query scenario.  The query (0, 20, [0]) with LOD disabled
\* over '#0 0!', '#10 1!', '#20 0!' returns exactly (0,0,0), (10,0,1),
\* (20,0,0) and no multi-bit transition; in general the results hold one
\* transition per timestamp at which the signal changed, the one at t_begin
\* with the value set at t_begin.
C12_MinimalScenario ==
    query_finished
    => /\ minimal_query => minimal_result
       /\ file # TraceVectorForm => \A idx \in queried : one_per_timestamp(idx)

\* C12 for a parser that passes its transitions through LodManager with
\* pixel_time_step < 0
C12_MinimalNoLod ==
    (query_finished /\ impl.lod_manager.pixel_time_step_ < 0) => C12_MinimalScenario

-----------------------------------------------------------------------------
(* C13 *)

\* the offset the feeds of the query start from
query_start == query_snapshot.file_offset

\* the offset behind the last complete line among the first p bytes of the file
complete_upto(p) == find_last_of(substr(file, 0, p), "\n") + 1

\* the offset behind the first timestamp line with a time > t_end among the
\* lines of the file from offset p up to limit, NPOS without one
RECURSIVE stop_line_end(_, _)
stop_line_end(p, limit) ==
    IF p >= limit THEN NPOS
    ELSE LET found == find(file, "\n", p)
             eol == IF found = NPOS THEN Len(file) ELSE found
             line == trim(substr(file, p, eol - p))
         IN IF line # <<>> /\ line[1] = "#"
               /\ stonum(substr(line, 1, NPOS)).val > impl.query_t_end
            THEN eol + 1
            ELSE stop_line_end(eol + 1, limit)

\* a timestamp line with a time > t_end is among the complete lines fed to
\* the query when the driver has read up to offset p
stop_seen(p) == stop_line_end(query_start, complete_upto(p)) # NPOS

\* the signal state and the result buffers of a parser
query_state(I) ==
    <<I.current_state_1bit, I.current_state_multibit, I.query_res_1bit,
      I.query_res_multibit, I.query_string_pool>>

\* the parser after a feed of the bytes from pos up to the end of the first
\* timestamp line with a time > t_end
fed_to_stop_line(limit) ==
    push_chunk_for_query(
        impl, SubSeq(file, pos + 1, stop_line_end(query_start, limit))).impl

\* C13: early stop.  A feed of a query returns true as long as no timestamp
\* line with a time > t_end has been processed; the feed that processes the
\* first such line returns false, and so does every later feed of the query;
\* no line behind that timestamp line changes the signal state or the result
\* buffers.  (A query that was cancelled is done without such a line.)
C13_EarlyStop ==
    [][(PushChunkForQuery \/ PushChunkAfterStop)
       => /\ ~impl.query_done => ret' = ~stop_seen(pos')
          /\ impl.query_done => ret' = FALSE /\ query_state(impl') = query_state(impl)
          /\ (~impl.query_done /\ stop_seen(pos'))
             => query_state(impl') = query_state(fed_to_stop_line(complete_upto(pos')))]_vars

\* a query has stopped at a timestamp line that was fed together with a line
\* behind it, and a later feed has returned false as well
C13_Witness ==
    /\ impl.phase = "Querying" /\ impl.query_done /\ ~ret
    /\ impl.current_time > impl.query_t_end
    /\ stop_seen(pos)
    /\ stop_line_end(query_start, complete_upto(pos)) < complete_upto(pos)
    /\ pos = Len(file)

-----------------------------------------------------------------------------
(* C14 *)

\* what the accessors of a parser return once a file is indexed, the
\* timescale left out: signals, scope tree, id map, path map, date, version,
\* t_begin, t_end, snapshots, is_open
observable_but_timescale(I) ==
    <<I.signal_defs, I.scopes, I.id_to_index, I.path_to_index, I.date_str,
      I.version_str, I.t_begin, I.t_end, I.snapshots, I.header_done>>

\* a freshly constructed parser that has indexed the file f and nothing else
fresh_index(f) ==
    finish_indexing(push_chunk_for_index(begin_indexing(constructed), f).impl)

\* C14: idempotent reopen.  After begin_indexing on a parser that was used
\* before and the indexing of a file, the observable state (signals, scope
\* tree, id and path maps, timescale, date, version, t_begin, t_end,
\* snapshots, is_open) is the one of a fresh parser that indexed only that
\* file.
C14_IdempotentReopen ==
    [][FinishIndexing
       => /\ observable_but_timescale(impl') = observable_but_timescale(fresh_index(file))
          /\ impl'.ts = fresh_index(file).ts]_vars

\* the same without the timescale
C14_ReopenButTimescale ==
    [][FinishIndexing
       => observable_but_timescale(impl') = observable_but_timescale(fresh_index(file))]_vars

-----------------------------------------------------------------------------
(* The packed 1-bit state on its own: a parser with NumPacked 1-bit        *)
(* signals after prepare_states, and writes of set_1bit_state to some of   *)
(* its bit indices.                                                        *)

NumPacked == 34

\* the bit indices written: both ends of the first word, the second word
BitIndices == {0, 1, 31, 32, NumPacked - 1}

InitBits ==
    /\ impl = prepare_states([constructed EXCEPT !.num_1bit = NumPacked])
    /\ file = <<>>
    /\ pos = 0
    /\ ret = TRUE
    /\ plan = NoPlan
    /\ qk = 0
    /\ written = <<>>

SetBit ==
    \E i \in BitIndices, v \in 0 .. 3 :
        /\ impl' = [impl EXCEPT !.current_state_1bit = set_1bit_state(@, i, v)]
        /\ written' = [j \in DOMAIN written \cup {i} |-> IF j = i THEN v ELSE written[j]]
        /\ UNCHANGED <<file, pos, ret, plan, qk>>

NextBits == SetBit

SpecBits == InitBits /\ [][NextBits]_vars

-----------------------------------------------------------------------------
(* C15 *)

\* C15: bit-packing round trip.  get_1bit_state of a bit index returns the
\* value most recently written to it by set_1bit_state, x = 2 if it was never
\* written; so a write to one index leaves every other index as it was, those
\* of the same 64-bit word included.
C15_BitPacking ==
    impl.num_1bit = NumPacked
    => \A j \in 0 .. NumPacked - 1 :
          get_1bit_state(impl.current_state_1bit, j)
          = IF j \in DOMAIN written THEN written[j] ELSE 2

\* indices 0 and 1 of the first word hold different values, index 32 of the
\* second word holds z, and index 31 was never written
C15_Witness ==
    /\ impl.num_1bit = NumPacked
    /\ DOMAIN written = {0, 1, 32}
    /\ written[0] = 1 /\ written[1] = 0 /\ written[32] = 3
    /\ get_1bit_state(impl.current_state_1bit, 0) = 1
    /\ get_1bit_state(impl.current_state_1bit, 1) = 0
    /\ get_1bit_state(impl.current_state_1bit, 31) = 2

-----------------------------------------------------------------------------
(* C16 *)

\* the strings of the multi-bit transitions in the result buffers
multibit_strings ==
    {substr(impl.query_string_pool, impl.query_res_multibit[i].string_offset,
            impl.query_res_multibit[i].string_length) :
        i \in 1 .. Len(impl.query_res_multibit)}

\* a query with pixel_time_step < 0 is finished
lod_disabled == query_finished /\ impl.with_lod /\ impl.lod_manager.pixel_time_step_ < 0

\* C16: LOD disabled.  With pixel_time_step < 0 no transition has the value
\* 4 or the string 'GLITCH', and every value change of a queried signal in
\* the window that changes its value at a new timestamp has a transition at
\* its own timestamp.
C16_LodDisabled ==
    lod_disabled
    => /\ \A i \in 1 .. Len(impl.query_res_1bit) : impl.query_res_1bit[i].value # GLITCH
       /\ GlitchString \notin multibit_strings
       /\ \A idx \in queried :
             \A t \in changed_at(impl.signal_defs[idx + 1]) : transitions_at(idx, t) # <<>>

\* the changes at 5, 8 and 12 of the glitch scenario, less than a pixel of
\* the step 100 apart, each have their transition
C16_Witness ==
    /\ lod_disabled /\ file = TraceGlitch
    /\ impl.query_t_begin = 0 /\ impl.query_signal_indices = <<0>>
    /\ transitions_at(0, 5) = <<[timestamp |-> 5, value |-> <<"1">>]>>
    /\ transitions_at(0, 8) = <<[timestamp |-> 8, value |-> <<"0">>]>>
    /\ transitions_at(0, 12) = <<[timestamp |-> 12, value |-> <<"1">>]>>

-----------------------------------------------------------------------------
(* C17 *)

\* the result buffers of a parser
result_buffers(I) == <<I.query_res_1bit, I.query_res_multibit, I.query_string_pool>>

\* a feed of a query that is done
FeedWhenDone == (PushChunkForQuery \/ PushChunkAfterStop) /\ impl.query_done

\* cancel_query sets done, and a feed of a done query returns false and
\* leaves the result buffers alone
cancel_stops_feeds ==
    /\ CancelQuery => impl'.query_done
    /\ FeedWhenDone => ret' = FALSE /\ result_buffers(impl') = result_buffers(impl)

initial_appended(p, q) ==
    /\ Len(q) >= Len(p) /\ SubSeq(q, 1, Len(p)) = p
    /\ \A i \in Len(p) + 1 .. Len(q) :
          /\ q[i].timestamp = impl.query_t_begin
          /\ q[i].signal_index \in queried
          /\ \A j \in Len(p) + 1 .. Len(q) : q[j].signal_index = q[i].signal_index => j = i

-----------------------------------------------------------------------------
(* C18 *)

\* what a feed outside a query must leave alone: signal state, current_time,
\* result buffers and string pool
feed_state(I) == <<query_state(I), I.current_time>>

\* C18: phase protocol.  finish_query_binary leaves the phase Idle; in a
\* phase other than Querying (before the first begin_query, after
\* finish_indexing, after a flush) push_chunk_for_query returns false and
\* leaves signal state, current_time, result buffers and string pool
\* unchanged.
C18_PhaseProtocol ==
    [][/\ (FinishQueryBinary \/ FlushAfterCancel) => impl'.phase = "Idle"
       /\ PushChunkOutsideQuery
          => /\ ret' = FALSE
             /\ feed_state(impl') = feed_state(impl)
             /\ impl'.phase = impl.phase]_vars

\* a feed was refused after the flush of a query that returned transitions
C18_Witness ==
    /\ impl.phase = "Idle" /\ impl.query_initial_emitted /\ ~impl.thrown
    /\ impl.header_done
    /\ ~ret /\ ~impl.query_done
    /\ impl.query_res_1bit # <<>>

-----------------------------------------------------------------------------
(* C19 *)

\* the header-only trace has been indexed and no query has been run
header_only_indexed == index_finished /\ file = TraceHeaderOnly

\* C19: header-only trace.  Indexing the two lines
\* '$timescale 1ns $end $scope module top $end' and
\* '$var wire 1 ! clk $end $upscope $end $enddefinitions $end' yields
\* signal_count = 1, signals[0].full_path = 'top.clk', the timescale (1, ns),
\* t_begin = t_end = 0 and exactly one snapshot, at time 0.
C19_HeaderOnly ==
    header_only_indexed
    => /\ Len(impl.signal_defs) = 1
       /\ impl.signal_defs[1].full_path = <<"t", "o", "p", ".", "c", "l", "k">>
       /\ impl.ts = [magnitude |-> 1, unit |-> "NS"]
       /\ impl.t_begin = 0 /\ time_end(impl) = 0
       /\ Len(impl.snapshots) = 1 /\ impl.snapshots[1].time = 0

\* the same with the full path the parser gives the signal
C19_HeaderOnlyUnscoped ==
    header_only_indexed
    => /\ Len(impl.signal_defs) = 1
       /\ impl.signal_defs[1].full_path = <<"c", "l", "k">>
       /\ impl.scopes = <<[RootScope EXCEPT !.signal_indices = <<0>>]>>
       /\ ~impl.header_done
       /\ impl.ts = [magnitude |-> 1, unit |-> "NS"]
       /\ impl.t_begin = 0 /\ time_end(impl) = 0
       /\ Len(impl.snapshots) = 1 /\ impl.snapshots[1].time = 0

-----------------------------------------------------------------------------
(* C20 *)

\* the indexing of the file has ended without a complete header: is_open()
\* is false
never_opened == ~impl.header_done /\ impl.phase # "Indexing" /\ impl.snapshots # <<>>

\* C20: unrecoverable errors.  Once is_open is false, begin_query, the chunk
\* feeds and the flush are no-ops: the parser stays in the phase Idle, the
\* result buffers stay empty, and no signal state is read or written out of
\* bounds.
C20_ClosedNoOps ==
    never_opened
    => /\ impl.phase = "Idle"
       /\ result_buffers(impl) = <<<<>>, <<>>, <<>>>>
       /\ ~impl.ub

\* a reachable state: the begin_query of a parser that is not open has
\* started a query
query_begun_unopened ==
    never_opened /\ impl.phase = "Querying" /\ impl.query_signal_indices = <<0>>

\* a reachable state: the flush of such a query has read the state of its
\* signal out of bounds
read_out_of_bounds == never_opened /\ impl.ub

-----------------------------------------------------------------------------
(* The driver of main.cpp over traces with lines a VCD writer would not    *)
(* produce: a timestamp without digits, changes of an id-code that was     *)
(* never declared, lines that start with no character of the data section. *)

id_q == <<"?">>

\* a '#' line without a number: '#x'
TraceBadTime ==
    HeaderOne \o time_line(t0) \o scalar("1", id_a)
    \o time_line(<<"x">>) \o scalar("0", id_a)

\* a scalar and a vector change of the id-code '?', which no $var declares
TraceUnknownId ==
    HeaderOne \o time_line(t0) \o scalar("1", id_a)
    \o time_line(t1) \o scalar("0", id_q) \o vector(<<"1">>, id_q)
    \o time_line(t2) \o scalar("0", id_a)

\* a line 'hi' between the changes
TraceJunk ==
    HeaderOne \o time_line(t0) \o scalar("1", id_a)
    \o time_line(t1) \o <<"h", "i">> \o nl \o scalar("0", id_a)
    \o time_line(t2) \o scalar("1", id_a)

\* a line 'j 1!': a word and a change behind it
TraceJunkChange ==
    HeaderOne \o time_line(t0) \o scalar("0", id_a)
    \o time_line(t1) \o <<"j">> \o sp \o scalar("1", id_a)
    \o time_line(t2) \o scalar("0", id_a)

MalformedTraces == {TraceBadTime, TraceUnknownId, TraceJunk, TraceJunkChange}

InitMalformed ==
    /\ impl = constructed
    /\ file \in MalformedTraces
    /\ pos = 0
    /\ ret = TRUE
    /\ plan = NoPlan
    /\ qk = 0
    /\ written = <<>>

SpecMalformed == InitMalformed /\ [][Next]_vars

-----------------------------------------------------------------------------
(* C21 *)

\* C21: malformed timestamp.  A '#' line whose remainder is not an unsigned
\* decimal number aborts the chunk call with a failure reported to the
\* caller; no exception escapes, and the leftover buffer stays consistent:
\* it holds no line that was already processed.
C21_MalformedTimestamp ==
    /\ ~impl.thrown
    /\ find(impl.leftover, "\n", 0) = NPOS

\* a reachable state: std::stoull has thrown out of push_chunk_for_index at
\* the line '#x'; the lines before it are applied and still in the leftover
timestamp_thrown ==
    /\ file = TraceBadTime /\ impl.thrown /\ impl.phase = "Indexing"
    /\ impl.current_time = 0
    /\ get_1bit_state(impl.current_state_1bit, 0) = 1
    /\ find_str(impl.leftover, time_line(t0)) # NPOS

-----------------------------------------------------------------------------
(* A caller that begins queries with arguments out of range: a snapshot    *)
(* index behind the snapshot array, or a window that ends before it        *)
(* begins.  qk is the snapshot index it passes.                            *)

InvalidTraces == {TraceToggle, TraceTwo}

InitInvalid ==
    /\ impl = constructed
    /\ file \in InvalidTraces
    /\ pos = 0
    /\ ret = TRUE
    /\ plan = NoPlan
    /\ qk = 0
    /\ written = <<>>

\* the windows and snapshot indices of which one at least is out of range
InvalidArguments ==
    {a \in [te : QueryEnds(plan.start_time) \cup {plan.start_time - 1},
             k : {plan.result.snapshot_index, Len(impl.snapshots),
                  Len(impl.snapshots) + 1}] :
        /\ a.te >= 0
        /\ a.te < plan.start_time \/ a.k >= Len(impl.snapshots)}

\* begin_query with such arguments; the caller then feeds from the offset
\* the parser holds
BeginQueryInvalid ==
    /\ indexed /\ plan # NoPlan
    /\ \E a \in InvalidArguments :
       \E subset \in Subsets(Len(impl.signal_defs)) :
       \E J \in {begin_query(impl, plan.start_time, a.te, subset, a.k)} :
          /\ impl' = J
          /\ pos' = J.leftover_file_offset
          /\ qk' = a.k
    /\ ret' = TRUE
    /\ plan' = NoPlan
    /\ UNCHANGED <<file, written>>

NextInvalid ==
    \/ BeginIndexing
    \/ PushChunkForIndex
    \/ FinishIndexing
    \/ GetQueryPlan
    \/ BeginQueryInvalid
    \/ PushChunkForQuery
    \/ FinishQueryBinary

SpecInvalid == InitInvalid /\ [][NextInvalid]_vars

-----------------------------------------------------------------------------
(* C22 *)

\* the valid snapshot index nearest to k
nearest_valid(k, n) == IF k >= n THEN n - 1 ELSE k

\* the parser holds the state, the time and the offset of the snapshot s
restored_from(I, s) ==
    /\ I.current_state_1bit = s.packed_1bit_states
    /\ I.current_state_multibit = s.multibit_states
    /\ I.current_time = s.time
    /\ I.leftover_file_offset = s.file_offset

\* C22: invalid query.  begin_query with a snapshot index outside the
\* snapshot array, or with t_end < t_begin, does not fail: the parser is in a
\* query and holds the state, the time and the offset of the nearest valid
\* snapshot.
C22_InvalidQuery ==
    [][BeginQueryInvalid
       => /\ impl'.phase = "Querying" /\ ~impl'.thrown /\ ~impl'.ub
          /\ restored_from(impl', impl.snapshots[nearest_valid(qk', Len(impl.snapshots)) + 1])]_vars

\* the same for the queries with a valid snapshot index and t_end < t_begin
C22_EmptyWindow ==
    [][(BeginQueryInvalid /\ qk' < Len(impl.snapshots))
       => /\ impl'.phase = "Querying" /\ ~impl'.thrown /\ ~impl'.ub
          /\ impl'.query_t_end < impl'.query_t_begin
          /\ restored_from(impl', impl.snapshots[qk' + 1])]_vars

\* a reachable state: a query begun with a snapshot index out of range holds
\* the state of prepare_states, the time 0 and the offset 0, which no
\* snapshot of the index has
restored_from_none ==
    /\ impl.phase = "Querying" /\ qk >= Len(impl.snapshots)
    /\ impl.current_time = 0 /\ impl.leftover_file_offset = 0
    /\ impl.current_state_1bit = prepare_states(impl).current_state_1bit
    /\ \A k \in 1 .. Len(impl.snapshots) : ~restored_from(impl, impl.snapshots[k])

-----------------------------------------------------------------------------
(* C23 *)

\* a data line the parser is to skip: its first character is none of '#',
\* '$', b/B/r/R, 0/1/x/X/z/Z, or it is a value change of an id-code that is
\* not in the symbol table
skipped_line(line) ==
    /\ line # <<>>
    /\ \/ line[1] \notin {"#", "$"} /\ ~is_1bit_char(line[1]) /\ ~is_vector_char(line[1])
       \/ is_1bit_char(line[1]) /\ substr(line, 1, NPOS) \notin DOMAIN impl.id_to_index
       \/ /\ is_vector_char(line[1]) /\ find(line, " ", 0) # NPOS
          /\ trim(substr(line, find(line, " ", 0) + 1, NPOS)) \notin DOMAIN impl.id_to_index

\* the file from offset p on with every such line replaced by blanks: the
\* file as if the lines were absent, the other lines at their offsets
RECURSIVE without_skipped(_, _)
without_skipped(buf, p) ==
    IF p >= Len(buf) THEN <<>>
    ELSE LET found == find(buf, "\n", p)
             eol == IF found = NPOS THEN Len(buf) ELSE found
             raw == substr(buf, p, eol - p)
         IN (IF skipped_line(trim(raw)) THEN [i \in 1 .. Len(raw) |-> " "] ELSE raw)
            \o (IF found = NPOS THEN <<>> ELSE nl)
            \o without_skipped(buf, eol + 1)

\* signal state, current_time, t_begin, t_end and snapshots of a parser
indexed_state(I) ==
    <<I.current_state_1bit, I.current_state_multibit, I.current_time,
      I.t_begin, I.t_end, I.snapshots>>

\* the query of the parser begun on the index J of the file f and fed f
\* from the offset of its snapshot
same_query_on(J, f) ==
    finish_query_binary(
        push_chunk_for_query(
            begin_query(J, impl.query_t_begin, impl.query_t_end,
                        impl.query_signal_indices, qk),
            SubSeq(f, J.snapshots[qk + 1].file_offset + 1, Len(f))).impl)

\* the state of a finished indexing or query is the one the file f gives
as_if_fed(f) ==
    /\ index_finished => indexed_state(impl) = indexed_state(fresh_index(f))
    /\ query_finished => query_state(impl) = query_state(same_query_on(fresh_index(f), f))

\* C23: tolerant data parsing.  A data line whose value-change token has an
\* id-code absent from the symbol table, and a data line whose first
\* character is none of '#', '$', b/B/r/R, 0/1/x/X/z/Z, is skipped entirely:
\* signal state, current_time, snapshots and result buffers are as if the
\* line were absent, and no error is raised.
C23_TolerantParsing ==
    file # TraceBadTime
    => /\ ~impl.thrown /\ ~impl.ub
       /\ (index_finished \/ query_finished) => as_if_fed(without_skipped(file, 0))

\* the same for the lines that hold one word
C23_TolerantOneWord ==
    file \in {TraceUnknownId, TraceJunk}
    => /\ ~impl.thrown /\ ~impl.ub
       /\ (index_finished \/ query_finished) => as_if_fed(without_skipped(file, 0))

\* a reachable state: the change '1!' behind the word 'j' is applied and
\* returned as a transition at time 1
junk_change_applied ==
    /\ file = TraceJunkChange /\ query_finished
    /\ impl.query_t_begin = 0 /\ impl.query_t_end >= 1
    /\ \E i \in 1 .. Len(impl.query_res_1bit) :
          impl.query_res_1bit[i].timestamp = 1 /\ impl.query_res_1bit[i].value = 1

\* reachable states in which lines were skipped: the queries over the
\* changes of the undeclared id-code and over the line 'hi'
lines_skipped ==
    /\ file \in {TraceUnknownId, TraceJunk} /\ query_finished
    /\ impl.query_t_begin = 0 /\ impl.query_t_end >= 2
    /\ without_skipped(file, 0) # file

-----------------------------------------------------------------------------
(* C24 *)

\* the value a snapshot holds for a signal, without the radix letter
snapshot_value(snap, sig) ==
    IF sig.width = 1
    THEN <<val2b_to_char(get_1bit_state(snap.packed_1bit_states, sig.bit_index))>>
    ELSE LET v == snap.multibit_states[sig.str_index + 1]
         IN IF v # <<>> /\ is_vector_char(v[1]) THEN Tail(v) ELSE v

\* the value changes of the file that lie at an offset < off
events_below(off) == events_from(SubSeq(file, 1, off), 0, -1)

\* the value the changes at an offset < off give the signal, x without one
value_below(sig, off) ==
    LET before == events_below(off)
        mine == {e \in 1 .. Len(before) : before[e].id = sig.id_code}
    IN IF mine = {} THEN <<"x">> ELSE before[SetMax(mine)].value

\* the snapshot holds the changes at an offset < its file_offset and no other
holds_changes_below(snap) ==
    \A i \in 1 .. Len(impl.signal_defs) :
       snapshot_value(snap, impl.signal_defs[i])
       = value_below(impl.signal_defs[i], snap.file_offset)

\* C24: snapshot state.  Every snapshot of the index, the final one of
\* finish_indexing included, also when the file does not end with a
\* newline, holds the state that results from every value change at a file
\* offset < snapshot.file_offset and from none at an offset >=
\* snapshot.file_offset.
C24_SnapshotState ==
    indexed => \A k \in 1 .. Len(impl.snapshots) : holds_changes_below(impl.snapshots[k])

\* the same for the files that end with a newline and hold no vector-form
\* change of a 1-bit signal
C24_SnapshotStateWhole ==
    (indexed /\ file[Len(file)] = "\n" /\ file # TraceVectorForm)
    => \A k \in 1 .. Len(impl.snapshots) : holds_changes_below(impl.snapshots[k])

\* a reachable state: the final snapshot of a file that ends in '0!' without
\* a newline holds the 0, a change at the snapshot's own file_offset
final_holds_later_change ==
    /\ indexed /\ file = TraceCutChange
    /\ impl.snapshots[Len(impl.snapshots)].file_offset = Len(file) - 2
    /\ snapshot_value(impl.snapshots[Len(impl.snapshots)], impl.signal_defs[1]) = <<"0">>
    /\ value_below(impl.signal_defs[1], Len(file) - 2) = <<"1">>

-----------------------------------------------------------------------------
(* C25 *)

\* the time of the timestamp line that starts at the offset off of the file,
\* -1 if no timestamp line starts there
line_time_at(off) ==
    LET found == find(file, "\n", off)
        eol == IF found = NPOS THEN Len(file) ELSE found
        line == trim(substr(file, off, eol - off))
    IN IF off < Len(file) /\ line # <<>> /\ line[1] = "#"
       THEN stonum(substr(line, 1, NPOS)).val ELSE -1

\* the value changes of the file at an offset >= off are those with a
\* timestamp >= t
replays_from(off, t) ==
    \A e \in 1 .. Len(events) : (e > Len(events_below(off))) <=> (events[e].time >= t)

\* C25: snapshot offset and time.  For every snapshot k, file_offset is the
\* offset of the '#<time>' line that begins snapshot[k].time, so that a
\* replay from that offset applies exactly the value changes with a
\* timestamp >= snapshot[k].time.
C25_SnapshotOffset ==
    indexed
    => \A k \in 1 .. Len(impl.snapshots) :
          /\ line_time_at(impl.snapshots[k].file_offset) = impl.snapshots[k].time
          /\ replays_from(impl.snapshots[k].file_offset, impl.snapshots[k].time)

\* what the snapshots have: time is the time before the line at file_offset,
\* and the replay from file_offset applies the changes behind those of time
C25_SnapshotOffsetBefore ==
    (indexed /\ file[Len(file)] = "\n")
    => \A k \in 1 .. Len(impl.snapshots) :
          LET snap == impl.snapshots[k]
          IN /\ \A e \in 1 .. Len(events) :
                   /\ e <= Len(events_below(snap.file_offset))
                      => MaxOf(events[e].time, 0) <= snap.time
                   /\ e > Len(events_below(snap.file_offset)) => events[e].time >= snap.time
             /\ snap.file_offset < Len(file) => line_time_at(snap.file_offset) >= snap.time

\* a reachable state: the second snapshot of the toggling trace has the time
\* 1 and the offset of the line '#2'; the change '1!' of time 1 lies below it
snapshot_at_next_line ==
    /\ indexed /\ file = TraceToggle
    /\ impl.snapshots[2].time = 1
    /\ line_time_at(impl.snapshots[2].file_offset) = 2
    /\ ~replays_from(impl.snapshots[2].file_offset, 1)

-----------------------------------------------------------------------------
(* C26 *)

\* the parser after the same query begun from snapshot 0 and fed the file
\* from the offset of snapshot 0, in one piece
scan_from_first ==
    finish_query_binary(
        push_chunk_for_query(
            begin_query(impl, impl.query_t_begin, impl.query_t_end,
                        impl.query_signal_indices, 0),
            SubSeq(file, impl.snapshots[1].file_offset + 1, Len(file))).impl)

\* the finished query was begun from the snapshot of get_query_plan(t_begin)
planned_query ==
    query_finished /\ qk = get_query_plan(impl, impl.query_t_begin).snapshot_index

\* C26: planned query equals full scan.  For every t_begin, also one equal
\* to a snapshot's time or behind the last timestamp, every t_end >= t_begin
\* and every subset, the query begun from the snapshot of
\* get_query_plan(t_begin) and fed from its offset returns the transitions
\* of the same query begun from snapshot 0 and fed from its offset.
C26_PlannedEqualsScan ==
    planned_query => binary_result(impl) = binary_result(scan_from_first)

\* the same for the queries whose t_begin is behind the time of the planned
\* snapshot
C26_PlannedBehindSnapshot ==
    (planned_query /\ impl.query_t_begin > query_snapshot.time)
    => binary_result(impl) = binary_result(scan_from_first)

\* a reachable state: the query (1, 2, [0]) over the toggling trace, planned
\* from the snapshot of time 1, returns (1,0,1), (2,0,0); the scan returns
\* (1,0,0), (1,0,1), (2,0,0)
planned_misses_change ==
    /\ planned_query /\ file = TraceToggle /\ qk = 1
    /\ impl.query_t_begin = 1 /\ impl.query_t_end = 2
    /\ impl.query_res_1bit = <<[timestamp |-> 1, signal_index |-> 0, value |-> 1],
                               [timestamp |-> 2, signal_index |-> 0, value |-> 0]>>
    /\ scan_from_first.query_res_1bit
       = <<[timestamp |-> 1, signal_index |-> 0, value |-> 0],
           [timestamp |-> 1, signal_index |-> 0, value |-> 1],
           [timestamp |-> 2, signal_index |-> 0, value |-> 0]>>

-----------------------------------------------------------------------------
(* The driver of main.cpp with chunks of every size: empty ones, single    *)
(* bytes, ChunkSize bytes, the rest of the file.                           *)

\* a file that ends behind its header
TraceNoData == HeaderOne

ChunkTraces == {TraceAlias, TraceShared, TraceNoNewline, TraceCutChange, TraceTimescale,
                TraceNoData}

InitChunks ==
    /\ impl = constructed
    /\ file \in ChunkTraces
    /\ pos = 0
    /\ ret = TRUE
    /\ plan = NoPlan
    /\ qk = 0
    /\ written = <<>>

AnyChunkSizes == {0, 1, ChunkSize, Len(file) - pos}

PushAnyChunkForIndex ==
    /\ impl.phase = "Indexing" /\ ~impl.thrown
    /\ pos < Len(file)
    /\ \E n \in AnyChunkSizes :
          \E R \in {push_chunk_for_index(impl, chunk(n))} :
             /\ impl' = R.impl
             /\ ret' = R.ret
             /\ pos' = pos + Len(chunk(n))
    /\ UNCHANGED <<file, plan, qk, written>>

PushAnyChunkForQuery ==
    /\ impl.phase = "Querying" /\ ~impl.thrown
    /\ ret
    /\ pos < Len(file)
    /\ \E n \in AnyChunkSizes :
          \E R \in {push_chunk_for_query(impl, chunk(n))} :
             /\ impl' = R.impl
             /\ ret' = R.ret
             /\ pos' = pos + Len(chunk(n))
    /\ UNCHANGED <<file, plan, qk, written>>

NextChunks ==
    \/ BeginIndexing
    \/ PushAnyChunkForIndex
    \/ FinishIndexing
    \/ GetQueryPlan
    \/ BeginQuery
    \/ PushAnyChunkForQuery
    \/ FinishQueryBinary

SpecChunks == InitChunks /\ [][NextChunks]_vars

-----------------------------------------------------------------------------
(* C27 *)

\* offset off is the first byte of a line of the file
line_start(off) == off < Len(file) /\ (off = 0 \/ file[off] = "\n")

\* C27: offset tracking.  When the chunks of the indexing are fed
\* contiguously from offset 0, after every push_chunk the leftover holds no
\* newline and leftover_file_offset is the offset in the file of
\* leftover[0], of the next byte to come when the leftover is empty; the
\* offset of every snapshot taken so far is the offset in the file of its
\* timestamp line, whatever the chunk boundaries.
C27_OffsetTracking ==
    (impl.phase = "Indexing" /\ ~impl.thrown)
    => /\ find(impl.leftover, "\n", 0) = NPOS
       /\ impl.leftover_file_offset = pos - Len(impl.leftover)
       /\ impl.leftover = SubSeq(file, pos - Len(impl.leftover) + 1, pos)
       /\ \A k \in 1 .. Len(impl.snapshots) :
             /\ line_start(impl.snapshots[k].file_offset)
             /\ file[impl.snapshots[k].file_offset + 1] = "#"

\* a chunk has ended within a line that lies behind the line of the second
\* snapshot, which itself is no multiple of ChunkSize
C27_Witness ==
    /\ impl.phase = "Indexing" /\ ~impl.thrown
    /\ Len(impl.snapshots) >= 2
    /\ impl.snapshots[2].file_offset % ChunkSize # 0
    /\ impl.leftover # <<>>
    /\ impl.leftover_file_offset > impl.snapshots[2].file_offset

-----------------------------------------------------------------------------
(* C28 *)

\* what an indexing leaves: signals, scope tree, timescale, t_begin, t_end,
\* the state of every signal, the snapshots
index_result(I) ==
    <<I.signal_defs, I.scopes, I.ts, I.t_begin, I.t_end,
      I.current_state_1bit, I.current_state_multibit, I.snapshots>>

\* the parser after the first n bytes of the file, fed in one chunk
fed_at_once(n) ==
    push_chunk_for_index(begin_indexing(constructed), SubSeq(file, 1, n)).impl

\* C28: chunking invariance of indexing.  Any two ways of splitting the
\* bytes of a file into contiguous chunks (one-byte chunks, empty chunks and
\* splits in the middle of a line included) give the same signals, scope
\* tree, timescale, t_begin, t_end, final signal state and snapshot list:
\* the parser is, after every chunk and at the end, the one that was fed
\* the same bytes as one chunk.
C28_ChunkingIndex ==
    /\ (impl.phase = "Indexing" /\ ~impl.thrown) => impl = fed_at_once(pos)
    /\ index_finished => index_result(impl) = index_result(fresh_index(file))

\* one-byte chunks have been fed, the last chunk has ended within a line, and
\* two snapshots have been taken
C28_Witness ==
    /\ impl.phase = "Indexing" /\ ~impl.thrown
    /\ pos < Len(file) /\ pos % ChunkSize # 0
    /\ impl.leftover # <<>>
    /\ Len(impl.snapshots) >= 2

\* the timescale '10ps' has been read from a line that was fed in pieces
timescale_in_pieces ==
    /\ index_finished /\ file = TraceTimescale
    /\ impl.ts = [magnitude |-> 10, unit |-> "PS"]

-----------------------------------------------------------------------------
(* C29 *)

\* the running query after the bytes fed so far, fed as one chunk
query_fed_at_once ==
    push_chunk_for_query(
        begin_query(impl, impl.query_t_begin, impl.query_t_end,
                    impl.query_signal_indices, qk),
        SubSeq(file, query_start + 1, pos)).impl

\* C29: chunking invariance of queries.  For a fixed query and start
\* offset the result buffers the flush returns are the same for every
\* chunking of the bytes fed, provided the caller stops feeding once a feed
\* returns false; a timestamp > t_end or a value change that is split across
\* two chunks is handled as if it had come in one chunk.
C29_ChunkingQuery ==
    /\ (impl.phase = "Querying" /\ ~impl.thrown)
       => /\ binary_result(impl) = binary_result(query_fed_at_once)
          /\ binary_result(finish_query_binary(impl))
             = binary_result(finish_query_binary(query_fed_at_once))
    /\ query_finished => binary_result(impl) = binary_result(same_query_on(impl, file))

\* a query from a later snapshot has recorded a transition, one-byte chunks
\* were fed, and the last chunk has ended within a line
C29_Witness ==
    /\ impl.phase = "Querying" /\ ~impl.thrown /\ ret
    /\ qk > 0
    /\ (pos - query_start) % ChunkSize # 0 /\ pos < Len(file)
    /\ impl.leftover # <<>>
    /\ impl.query_res_1bit # <<>>

\* a query has been stopped by a timestamp > t_end whose line came in
\* one-byte chunks
stop_in_pieces ==
    /\ impl.phase = "Querying" /\ ~ret /\ impl.query_done
    /\ pos - query_start < ChunkSize
    /\ pos < Len(file)

-----------------------------------------------------------------------------
(* C30 *)

\* finish_indexing has returned: the parser holds an index, a query may run
after_indexing == impl.phase # "Indexing" /\ impl.snapshots # <<>> /\ ~impl.thrown

\* C30: queries do not alter index metadata.  After finish_indexing no
\* call of get_query_plan, begin_query, push_chunk_for_query or
\* finish_query_binary changes what time_begin(), time_end(),
\* signal_count() and snapshot_count() return.
C30_QueriesKeepMetadata ==
    [][after_indexing
       => /\ time_begin(impl') = time_begin(impl)
          /\ time_end(impl') = time_end(impl)
          /\ Len(impl'.signal_defs) = Len(impl.signal_defs)
          /\ snapshot_count(impl') = snapshot_count(impl)]_vars

\* the same without time_end(), and the snapshots themselves are kept
C30_QueriesKeepBegin ==
    [][after_indexing
       => /\ time_begin(impl') = time_begin(impl)
          /\ impl'.signal_defs = impl.signal_defs
          /\ impl'.snapshots = impl.snapshots]_vars

\* a reachable state: after a query that stopped early time_end() returns
\* the timestamp that stopped it, not the last one of the file
time_end_lowered ==
    /\ query_finished /\ impl.query_done
    /\ time_end(impl) = impl.current_time
    /\ time_end(impl) < time_end(fresh_index(file))

-----------------------------------------------------------------------------
(* The driver of main.cpp that may also abandon a running query: it begins *)
(* the next one without a flush.                                           *)

IsolationTraces == {TraceAlias, TraceToggle, TraceTwo}

InitIsolation ==
    /\ impl = constructed
    /\ file \in IsolationTraces
    /\ pos = 0
    /\ ret = TRUE
    /\ plan = NoPlan
    /\ qk = 0
    /\ written = <<>>

\* begin_query on a parser whose query has not been finished
AbandonQuery ==
    /\ impl.phase = "Querying" /\ ~impl.thrown
    /\ \E start_time \in QueryBegins :
       \E te \in QueryEnds(start_time) :
       \E subset \in Subsets(Len(impl.signal_defs)) :
       \E P \in {get_query_plan(impl, start_time)} :
          /\ impl' = begin_query(impl, start_time, te, subset, P.snapshot_index)
          /\ pos' = P.file_offset
          /\ qk' = P.snapshot_index
    /\ ret' = TRUE
    /\ plan' = NoPlan
    /\ UNCHANGED <<file, written>>

NextIsolation ==
    \/ BeginIndexing
    \/ PushChunkForIndex
    \/ FinishIndexing
    \/ GetQueryPlan
    \/ BeginQuery
    \/ AbandonQuery
    \/ PushChunkForQuery
    \/ FinishQueryBinary

SpecIsolation == InitIsolation /\ [][NextIsolation]_vars

-----------------------------------------------------------------------------
(* C31 *)

\* the running query as the first query of a fresh parser that has indexed
\* the file, fed the bytes fed so far
as_first_query ==
    push_chunk_for_query(
        begin_query(fresh_index(file), impl.query_t_begin, impl.query_t_end,
                    impl.query_signal_indices, qk),
        SubSeq(file, query_start + 1, pos)).impl

\* C31: query isolation.  begin_query restores signal state and
\* current_time from the named snapshot, clears both result spans, the
\* string pool and the leftover, rebuilds the queried-signal set and resets
\* initial_emitted and done, so the results of a query are the same whether
\* it is the first query after the indexing or follows any sequence of
\* completed, early-stopped or abandoned queries.
C31_QueryIsolation ==
    /\ (impl.phase = "Querying" /\ ~impl.thrown)
       => query_state(impl) = query_state(as_first_query)
    /\ query_finished
       => binary_result(impl) = binary_result(same_query_on(fresh_index(file), file))

\* a query begun from the final snapshot has returned the initial state,
\* after an earlier query that stopped early had left its mark in t_end
C31_Witness ==
    /\ query_finished
    /\ impl.t_end < impl.current_time
    /\ impl.query_res_1bit # <<>>
    /\ qk = Len(impl.snapshots) - 1

-----------------------------------------------------------------------------
(* C32 *)

\* the transition tr of a result buffer belongs to the query of the parser
inside_query(tr) ==
    /\ \E k \in 1 .. Len(impl.query_signal_indices) :
          impl.query_signal_indices[k] = tr.signal_index
    /\ impl.query_t_begin <= tr.timestamp
    /\ tr.timestamp <= impl.query_t_end

\* a query is running or has been finished
in_query == (impl.phase = "Querying" \/ query_finished) /\ ~impl.thrown

in_subset(idx) ==
    \E k \in 1 .. Len(impl.query_signal_indices) : impl.query_signal_indices[k] = idx

-----------------------------------------------------------------------------
(* The driver of main.cpp over traces with directives in the data section  *)
(* and behind $enddefinitions.                                             *)

kw_dumpall == <<"$", "d", "u", "m", "p", "a", "l", "l">>

\* a $dumpvars block over three lines: '$dumpvars', '0!', '$end'
TraceDumpBlock ==
    HeaderOne \o time_line(t0) \o kw_dumpvars \o nl \o scalar("0", id_a)
    \o kw_end \o nl
    \o time_line(t1) \o scalar("1", id_a)
    \o time_line(t2) \o scalar("0", id_a)

\* a block on one line with two changes: '$dumpall 0! 0& $end'
TraceDumpLine ==
    HeaderTwo \o time_line(t0) \o scalar("1", id_a) \o scalar("1", id_c)
    \o time_line(t1) \o kw_dumpall \o sp \o <<"0">> \o id_a \o sp \o <<"0">> \o id_c
    \o end_line
    \o time_line(t2) \o scalar("1", id_a)

\* a block on one line with one change: '$dumpall 1! $end'
TraceDumpOne ==
    HeaderOne \o time_line(t0) \o scalar("0", id_a)
    \o time_line(t1) \o kw_dumpall \o sp \o <<"1">> \o id_a \o end_line
    \o time_line(t2) \o scalar("0", id_a)

kw_comment == <<"$", "c", "o", "m", "m", "e", "n", "t">>

\* a comment in the header whose body has a line that looks like a $var:
\* '$comment', '$var wire 1 & c x', '$end'
TraceCommentHeader ==
    kw_comment \o nl
    \o kw_var \o sp \o <<"w", "i", "r", "e">> \o sp \o <<"1">> \o sp \o id_c \o sp
    \o <<"c">> \o sp \o <<"x">> \o nl
    \o kw_end \o nl
    \o HeaderOne \o time_line(t0) \o scalar("1", id_a)

\* comments in the data section whose bodies look like a value change and
\* like a timestamp: '$comment', '1!', '$end' and '$comment', '#5', '$end'
TraceCommentData ==
    HeaderOne \o time_line(t0) \o scalar("0", id_a)
    \o time_line(t1) \o kw_comment \o nl \o scalar("1", id_a) \o kw_end \o nl
    \o time_line(t2) \o scalar("0", id_a)
    \o kw_comment \o nl \o time_line(t5) \o kw_end \o nl

\* comments on one line, in the header and in the data section:
\* '$comment $var wire 1 & c $end' and '$comment 1! $end'
TraceCommentLine ==
    kw_comment \o sp \o kw_var \o sp \o <<"w", "i", "r", "e">> \o sp \o <<"1">> \o sp
    \o id_c \o sp \o <<"c">> \o end_line
    \o HeaderOne \o time_line(t0) \o scalar("0", id_a)
    \o time_line(t1) \o kw_comment \o sp \o <<"1">> \o id_a \o end_line
    \o time_line(t2) \o scalar("1", id_a)

\* a $dumpvars block before $enddefinitions
TraceDumpvarsEarly ==
    var_line(<<"1">>, id_a, <<"a">>) \o kw_dumpvars \o nl \o scalar("1", id_a)
    \o kw_end \o nl \o enddefinitions_line
    \o time_line(t0) \o scalar("0", id_a)

\* a $var line behind $enddefinitions, and a change of the vector it declares
TraceVarAfterSeal ==
    HeaderOne \o var_line(<<"4">>, id_v, <<"v">>)
    \o time_line(t0) \o scalar("1", id_a)
    \o time_line(t1) \o vector(<<"1", "0">>, id_v)

DirectiveTraces == {TraceDumpBlock, TraceDumpLine, TraceDumpOne,
                    TraceCommentHeader, TraceCommentData, TraceCommentLine,
                    TraceDumpvarsEarly, TraceVarAfterSeal}

InitDirectives ==
    /\ impl = constructed
    /\ file \in DirectiveTraces
    /\ pos = 0
    /\ ret = TRUE
    /\ plan = NoPlan
    /\ qk = 0
    /\ written = <<>>

SpecDirectives == InitDirectives /\ [][Next]_vars

-----------------------------------------------------------------------------
(* C33 *)

\* the offset behind the word of buf that starts at offset p
word_end(buf, p) ==
    SetMin({e \in p .. Len(buf) : e = Len(buf) \/ buf[e + 1] \in {" ", "\n"}})

\* the scalar changes among the words of buf from offset p on, in file
\* order, each with its time and whether it lies in a $dump block: between
\* a word that starts with '$dump' and the next word '$end'
RECURSIVE changes_from(_, _, _, _)
changes_from(buf, p, now, inside) ==
    IF p >= Len(buf) THEN <<>>
    ELSE IF buf[p + 1] \in {" ", "\n"} THEN changes_from(buf, p + 1, now, inside)
    ELSE LET e == word_end(buf, p)
             word == substr(buf, p, e - p)
         IN IF word[1] = "#"
            THEN changes_from(buf, e, stonum(Tail(word)).val, inside)
            ELSE IF starts_with(word, kw_dump) THEN changes_from(buf, e, now, TRUE)
            ELSE IF word = kw_end THEN changes_from(buf, e, now, FALSE)
            ELSE IF is_1bit_char(word[1])
            THEN <<[id |-> Tail(word), value |-> word[1], time |-> now,
                    dump |-> inside]>>
                 \o changes_from(buf, e, now, inside)
            ELSE changes_from(buf, e, now, inside)

\* the offset behind '$enddefinitions $end'
data_start == find_str(file, kw_enddefinitions) + Len(enddefinitions_line)

\* the scalar changes of the data section of the file
changes == changes_from(file, data_start, -1, FALSE)

\* the transition tr records the change c
records(tr, c) ==
    /\ tr.timestamp = c.time
    /\ impl.signal_defs[tr.signal_index + 1].id_code = c.id
    /\ tr.value = char_to_val2b(c.value)

\* no transition behind the initial ones records a change of a $dump block
\* that is not also a change outside the blocks
blocks_unrecorded ==
    in_query
    => \A i \in Len(impl.query_signal_indices) + 1 .. Len(impl.query_res_1bit) :
          \A c \in 1 .. Len(changes) :
             (changes[c].dump /\ records(impl.query_res_1bit[i], changes[c]))
             => \E d \in 1 .. Len(changes) :
                   ~changes[d].dump /\ records(impl.query_res_1bit[i], changes[d])

\* the state store of the parser has the slot of the signal
slot_allocated(sig) ==
    IF sig.width = 1 THEN sig.bit_index \div 32 < Len(impl.current_state_1bit)
    ELSE sig.str_index < Len(impl.current_state_multibit)

\* after the indexing every signal holds the value of the last change of
\* its id-code, in a block or not
blocks_applied ==
    index_finished
    => \A i \in 1 .. Len(impl.signal_defs) :
          LET sig == impl.signal_defs[i]
              mine == {c \in 1 .. Len(changes) : changes[c].id = sig.id_code}
          IN mine # {}
             => slot_allocated(sig) /\ held_value(sig) = <<changes[SetMax(mine)].value>>

\* C33: dump blocks during a query.  Value changes inside a $dumpvars,
\* $dumpoff, $dumpon or $dumpall block, written on the directive's line or
\* on the following lines up to the closing $end, are applied to the signal
\* state for every token of the block but never recorded as a transition,
\* even when the block lies inside the query window.
C33_DumpBlocks == blocks_unrecorded /\ blocks_applied

\* the same for a block that is one line with one change
C33_DumpOneChange == (file = TraceDumpOne) => (blocks_unrecorded /\ blocks_applied)

\* a reachable state: the change '0!' on the line behind '$dumpvars' is
\* returned as the transition (0, 0, 0)
block_line_recorded ==
    /\ query_finished /\ file = TraceDumpBlock
    /\ impl.query_t_begin = 0
    /\ Len(impl.query_res_1bit) >= 2
    /\ impl.query_res_1bit[2] = [timestamp |-> 0, signal_index |-> 0, value |-> 0]

\* a reachable state: after '$dumpall 0! 0& $end' both signals still hold 1
block_line_unapplied ==
    /\ index_finished /\ file = TraceDumpLine
    /\ held_value(impl.signal_defs[2]) = <<"1">>

-----------------------------------------------------------------------------
(* C34 *)

\* the word is a directive whose body the parser has no use for: $comment,
\* $date, $version and every '$' word that is no directive the parser knows
body_directive(word) ==
    /\ word[1] = "$"
    /\ ~starts_with(word, kw_end) /\ ~starts_with(word, kw_dump)
    /\ ~starts_with(word, kw_var) /\ ~starts_with(word, kw_scope)
    /\ ~starts_with(word, kw_upscope) /\ ~starts_with(word, kw_timescale)

blanks(n) == [i \in 1 .. n |-> " "]

\* buf from offset p on with every such directive blanked from its keyword
\* through its closing $end; the newlines and the offsets are kept
RECURSIVE without_bodies(_, _, _)
without_bodies(buf, p, inside) ==
    IF p >= Len(buf) THEN <<>>
    ELSE IF buf[p + 1] \in {" ", "\n"}
    THEN <<buf[p + 1]>> \o without_bodies(buf, p + 1, inside)
    ELSE LET e == word_end(buf, p)
             word == substr(buf, p, e - p)
         IN IF inside THEN blanks(e - p) \o without_bodies(buf, e, word # kw_end)
            ELSE IF body_directive(word) THEN blanks(e - p) \o without_bodies(buf, e, TRUE)
            ELSE word \o without_bodies(buf, e, FALSE)

\* the symbol table of a parser
symbol_table(I) == <<I.signal_defs, I.id_to_index, I.path_to_index, I.scopes>>

\* the parser is as if the file f had been indexed and queried
consumed_as(f) ==
    /\ index_finished
       => /\ indexed_state(impl) = indexed_state(fresh_index(f))
          /\ symbol_table(impl) = symbol_table(fresh_index(f))
    /\ (query_finished /\ impl.snapshots = fresh_index(f).snapshots)
       => query_state(impl) = query_state(same_query_on(fresh_index(f), f))

\* C34: directive bodies are consumed through $end.  The text between a
\* $comment, $date, $version or unknown '$' directive and its closing $end,
\* also when it spans several lines and looks like a timestamp, a value
\* change or a $var, never changes current_time, signal state, snapshots,
\* the symbol table or query results: the parser is as if the directive and
\* its body were blank.
C34_DirectiveBodies == consumed_as(without_bodies(file, 0, FALSE))

\* the same for a directive that is closed on its own line
C34_DirectiveOneLine ==
    (file = TraceCommentLine) => consumed_as(without_bodies(file, 0, FALSE))

\* a reachable state: the line '$var wire 1 & c x' of a comment has declared
\* a signal
comment_declares ==
    /\ index_finished /\ file = TraceCommentHeader
    /\ Len(impl.signal_defs) = 2
    /\ impl.signal_defs[1].id_code = id_c

\* a reachable state: the lines '1!' and '#5' of comments have given the
\* signal the transition (1, 0, 1) and the index the end time 5
comment_changes ==
    /\ query_finished /\ file = TraceCommentData
    /\ \E i \in 1 .. Len(impl.query_res_1bit) :
          impl.query_res_1bit[i] = [timestamp |-> 1, signal_index |-> 0, value |-> 1]
    /\ fresh_index(file).t_end = 5

-----------------------------------------------------------------------------
(* C35 *)

\* C35: Header to Data transition.  The parser leaves the Header state
\* only when $enddefinitions has been processed, so in every reachable state
\* in which a value change is applied the state store has been allocated
\* and the bit_index or str_index of every signal lies within it: no value
\* change reads or writes outside the store.
C35_HeaderToData ==
    /\ ~impl.ub
    /\ impl.parse_state = "Data"
       => /\ impl.header_done
          /\ \A i \in 1 .. Len(impl.signal_defs) : slot_allocated(impl.signal_defs[i])

\* a reachable state: '$dumpvars' before $enddefinitions has put the parser
\* into the Data state, and the change '1!' has written to a store without
\* slots
unsealed_change ==
    /\ file = TraceDumpvarsEarly
    /\ impl.phase = "Indexing" /\ impl.parse_state = "Data" /\ ~impl.header_done
    /\ impl.current_state_1bit = <<>>
    /\ impl.ub

-----------------------------------------------------------------------------
(* C36 *)

\* the state store of the parser I has one slot for each declared signal
one_slot_each(I) ==
    /\ Len(I.current_state_multibit)
       = Cardinality({i \in 1 .. Len(I.signal_defs) : I.signal_defs[i].width # 1})
    /\ Len(I.current_state_1bit)
       = (Cardinality({i \in 1 .. Len(I.signal_defs) : I.signal_defs[i].width = 1})
          + 31) \div 32

\* every slot of the state store of the parser I holds x
all_x(I) ==
    /\ \A w \in 1 .. Len(I.current_state_1bit) : I.current_state_1bit[w] = WordAllX
    /\ \A m \in 1 .. Len(I.current_state_multibit) : I.current_state_multibit[m] = <<"x">>

\* C36: seal.  Once $enddefinitions has been processed the signal array is
\* frozen: no later input line changes signal_count, the id-code map, the
\* path map or the scope tree, and the state store keeps one slot for each
\* declared signal, initialised to x when the header is sealed.
C36_Seal ==
    [][/\ (~impl.header_done /\ impl'.header_done)
          => (one_slot_each(impl') /\ (impl'.snapshots = <<>> => all_x(impl')))
       /\ (impl.header_done /\ impl'.header_done)
          => /\ symbol_table(impl') = symbol_table(impl)
             /\ impl'.current_scope = impl.current_scope
             /\ one_slot_each(impl')]_vars

\* a reachable state: the '$var' line behind $enddefinitions has declared a
\* second signal, the store has no slot for it, and its change 'b10 %' has
\* written outside the store
declared_after_seal ==
    /\ index_finished /\ file = TraceVarAfterSeal
    /\ Len(impl.signal_defs) = 2
    /\ impl.current_state_multibit = <<>>
    /\ impl.ub

-----------------------------------------------------------------------------
(* C37 *)

\* the time of the last timestamp line of the file, 0 without one
last_timestamp == IF timestamps = <<>> THEN 0 ELSE timestamps[Len(timestamps)]

\* the index of the file with a newline at its end
newline_index == fresh_index(file \o nl)

\* what C37 says of the parser I that finish_indexing has left
finished(I) ==
    /\ I.phase = "Idle"
    /\ I.leftover = <<>>
    /\ I.current_time = last_timestamp
    /\ I.current_state_1bit = newline_index.current_state_1bit
    /\ I.current_state_multibit = newline_index.current_state_multibit
    /\ I.snapshots # <<>>
    /\ I.snapshots[Len(I.snapshots)].time = last_timestamp
    /\ \A t \in QueryBegins : \E k \in 1 .. Len(I.snapshots) : I.snapshots[k].time <= t

\* C37: final snapshot.  After finish_indexing the residual leftover has
\* been parsed, the phase is Idle, the snapshot list is not empty and the
\* time of the last snapshot is the time of the last timestamp line of the
\* trace (0 without one), so every query time has a snapshot at or before
\* it.
C37_FinalSnapshot ==
    [][(impl.phase = "Indexing" /\ impl'.phase # "Indexing") => finished(impl')]_vars

\* a file without a final newline has been indexed: its last line, the
\* timestamp '#2', was parsed by finish_indexing and is the time of the
\* final snapshot
C37_Witness ==
    /\ index_finished /\ file = TraceNoNewline
    /\ impl.leftover_file_offset < Len(file)
    /\ impl.current_time = 2
    /\ impl.snapshots[Len(impl.snapshots)].time = 2

\* a file without a timestamp line has one snapshot, of time 0
no_data_indexed ==
    /\ index_finished /\ file = TraceNoData
    /\ Len(impl.snapshots) = 1
    /\ impl.snapshots[1].time = 0

-----------------------------------------------------------------------------
(* C38 *)

\* time and offset of the snapshots that are due at the timestamp lines of
\* buf from offset p on: at the first one, and at every one that lies
\* SNAPSHOT_INTERVAL bytes or more behind the line of the snapshot before;
\* now is the time before the line, last the offset of the last snapshot,
\* -1 when none is taken yet
RECURSIVE due_snapshots(_, _, _, _)
due_snapshots(buf, p, now, last) ==
    IF p >= Len(buf) THEN <<>>
    ELSE LET found == find(buf, "\n", p)
             eol == IF found = NPOS THEN Len(buf) ELSE found
             line == trim(substr(buf, p, eol - p))
             stamp == line # <<>> /\ line[1] = "#"
             due == stamp /\ (last = -1 \/ p - last >= SNAPSHOT_INTERVAL)
             next == IF stamp THEN stonum(substr(line, 1, NPOS)).val ELSE now
         IN (IF due THEN <<[time |-> now, file_offset |-> p]>> ELSE <<>>)
            \o due_snapshots(buf, eol + 1, next, IF due THEN p ELSE last)

\* the first n snapshots of the parser are the ones due in buf
taken_as_due(buf, n) ==
    LET due == due_snapshots(buf, 0, 0, -1)
    IN /\ n = Len(due)
       /\ \A k \in 1 .. n :
             /\ impl.snapshots[k].time = due[k].time
             /\ impl.snapshots[k].file_offset = due[k].file_offset
       /\ \A k \in 1 .. n - 1 :
             impl.snapshots[k + 1].file_offset - impl.snapshots[k].file_offset
             >= SNAPSHOT_INTERVAL

\* the last snapshot is the final one of finish_indexing
has_final ==
    Len(impl.snapshots) > Len(due_snapshots(file, 0, 0, -1))

-----------------------------------------------------------------------------
(* C39 *)

\* flush_query_binary has returned the results of a query with LOD
lod_flushed == query_finished /\ impl.with_lod

\* the file changes the signal at time t
changes_at(sig, t) ==
    \E e \in 1 .. Len(events) : events[e].id = sig.id_code /\ events[e].time = t

\* every GLITCH marker of the signal idx is followed by a closing
\* transition: it has the time of a change of the signal and the value the
\* signal has in the file at that time
glitches_closed(idx) ==
    LET sig == impl.signal_defs[idx + 1]
        mine == transitions_of(idx)
    IN \A i \in 1 .. Len(mine) :
          mine[i].value = GlitchString
          => /\ i < Len(mine)
             /\ mine[i + 1].value # GlitchString
             /\ mine[i + 1].timestamp >= mine[i].timestamp
             /\ changes_at(sig, mine[i + 1].timestamp)
             /\ mine[i + 1].value = value_at(sig, mine[i + 1].timestamp)

\* the last transition of the signal idx carries the value the signal has
\* in the file after its last change at or before t_end
ends_with_actual(idx) ==
    LET mine == transitions_of(idx)
    IN /\ mine # <<>>
       /\ mine[Len(mine)].value = value_at(impl.signal_defs[idx + 1], impl.query_t_end)

\* C39: glitch closure.  Whenever a glitch on a signal closes, by a later
\* change at least pixel_time_step after the previous one or by
\* flush_glitches at the end of the query, a closing transition is emitted
\* at last_transition_time of the signal with the signal's actual latest
\* value; after flush_query_binary no signal is left glitching and the last
\* transition of every queried signal, in buffer order, carries the value
\* the signal has after its last change at or before t_end.
C39_GlitchClosure ==
    lod_flushed
    => /\ \A s \in 1 .. Len(impl.lod_manager.signal_is_glitch_) :
             ~impl.lod_manager.signal_is_glitch_[s]
       /\ \A idx \in queried : glitches_closed(idx) /\ ends_with_actual(idx)

\* a glitch of a queried signal was closed by a later change: its marker is
\* followed by the closing transition and by the transition of that change
C39_Witness ==
    /\ lod_flushed /\ impl.lod_manager.pixel_time_step_ > 0
    /\ \E idx \in queried :
       \E i \in 1 .. Len(transitions_of(idx)) - 2 :
          /\ transitions_of(idx)[i].value = GlitchString
          /\ transitions_of(idx)[i + 1].timestamp < transitions_of(idx)[i + 2].timestamp

\* a glitch was closed by flush_glitches: the query stopped early and the
\* last transition of the signal follows a marker
closed_by_flush ==
    /\ lod_flushed /\ impl.query_done
    /\ \E idx \in queried :
          /\ Len(transitions_of(idx)) >= 2
          /\ transitions_of(idx)[Len(transitions_of(idx)) - 1].value = GlitchString
          /\ transitions_of(idx)[Len(transitions_of(idx))].timestamp < impl.query_t_end

-----------------------------------------------------------------------------
(* C40 *)

\* the bytes of the string pool the multi-bit transition tr refers to
referenced(tr) == substr(impl.query_string_pool, tr.string_offset, tr.string_length)

\* the bytes tr refers to are the literal GLITCH, the value of a change of
\* the signal at the timestamp of tr, or, for a transition at t_begin, the
\* value the signal has in the file at t_begin or before it
stands_for(tr) ==
    LET sig == impl.signal_defs[tr.signal_index + 1]
        v == digits_of(referenced(tr))
    IN \/ referenced(tr) = GlitchString
       \/ \E e \in 1 .. Len(events) :
             /\ events[e].id = sig.id_code
             /\ events[e].time = tr.timestamp
             /\ events[e].value = v
       \/ /\ tr.timestamp = impl.query_t_begin
          /\ v \in {value_before(sig, impl.query_t_begin), value_at(sig, impl.query_t_begin)}

\* C40: string pool references stay valid.  In every reachable state of a
\* query every multi-bit transition in the results has
\* string_offset + string_length <= the size of the string pool, and the
\* bytes it refers to are the value, or the literal GLITCH, the transition
\* stands for.
C40_PoolReferences ==
    in_query
    => \A i \in 1 .. Len(impl.query_res_multibit) :
          /\ impl.query_res_multibit[i].string_offset
             + impl.query_res_multibit[i].string_length <= Len(impl.query_string_pool)
          /\ stands_for(impl.query_res_multibit[i])

\* a query with LOD holds a GLITCH marker with the closing transition behind
\* it, and a transition whose string is followed in the pool by later ones
C40_Witness ==
    /\ in_query /\ impl.with_lod
    /\ Len(impl.query_res_multibit) >= 3
    /\ \E i \in 1 .. Len(impl.query_res_multibit) - 1 :
          /\ referenced(impl.query_res_multibit[i]) = GlitchString
          /\ impl.query_res_multibit[i + 1].signal_index
             = impl.query_res_multibit[i].signal_index
          /\ referenced(impl.query_res_multibit[i + 1]) # GlitchString
    /\ \E i \in 1 .. Len(impl.query_res_multibit) :
          impl.query_res_multibit[i].string_offset
          + impl.query_res_multibit[i].string_length < Len(impl.query_string_pool)

====
